---- MODULE Spec2Model ----
(***************************************************************************)
(* Word Mosaic: the board, the letter bank, the player's hand, the scorer   *)
(* and the turn orchestration, modelled from the Python sources.            *)
(*                                                                          *)
(* Python values are modelled by shape.  Board.board is a Python list; its  *)
(* elements are either row lists (as Board.__init__ builds them) or single  *)
(* character strings (as clear_position, reset_board and place_word write   *)
(* them through the flat index row*cols+col).  An element is the record     *)
(* [k |-> "list" | "str", v |-> sequence of cells/characters].  A raised    *)
(* exception is the exc field of an operation's outcome.                    *)
(*                                                                          *)
(* Board.__init__ assigns rows, cols, board, special_tiles and              *)
(* special_tiles_occupied and then calls Scoring(special_tiles), which      *)
(* lacks the letter_scores argument that Scoring.__init__ requires.  The    *)
(* board is modelled with the fields assigned and with the scorer that      *)
(* main.py builds: Scoring(special_tiles, LetterBank.LETTER_VALUES).        *)
(*                                                                          *)
(* last and placed_this_turn are history variables: last records the most   *)
(* recent call and its outcome, placed_this_turn the cells the window's     *)
(* handlers have filled since the last submitted turn.  The random choice   *)
(* of LetterBank._get_random_letter ranges over the letters of RandomPool   *)
(* that the bank can supply.                                                *)
(***************************************************************************)
EXTENDS Integers, Sequences, FiniteSets, TLC

VARIABLES board, special_tiles_occupied,
          letter_bank, letter_bank_total,
          hand, hand_total, letter_order,
          selected_letter, score, scoring, placed_this_turn,
          game,
          last

vars == <<board, special_tiles_occupied, letter_bank, letter_bank_total,
          hand, hand_total, letter_order,
          selected_letter, score, scoring, placed_this_turn, game, last>>

(***************************************************************************)
(* Bounds of the model.                                                     *)
(***************************************************************************)
Rows == 3
Cols == 3
MaxPlaced == 2

MaxSize == 2

PoolSize == 3

MaxDraw == 2

MaxOut == 3

MaxTurns == 2

MaxClick == 2

MaxTiles == 2

\* the most tiles a nearly empty bank holds
MaxLeft == 1

\* the longest word scored on its own and the last row and column it starts on
MaxWordLen == 8

MaxStart == 7

(***************************************************************************)
(* Characters.                                                              *)
(***************************************************************************)
LowerLetters ==
    <<"a","b","c","d","e","f","g","h","i","j","k","l","m",
      "n","o","p","q","r","s","t","u","v","w","x","y","z">>

UpperLetters ==
    <<"A","B","C","D","E","F","G","H","I","J","K","L","M",
      "N","O","P","Q","R","S","T","U","V","W","X","Y","Z">>

Range(s) == {s[i] : i \in DOMAIN s}

LowerSet == Range(LowerLetters)

UpperSet == Range(UpperLetters)

\* str.isalpha() on a one-character string
isalpha(s) == s \in LowerSet \/ s \in UpperSet

\* str.upper() on a single character
upper(s) ==
    IF s \in LowerSet
    THEN UpperLetters[CHOOSE j \in 1..26 : LowerLetters[j] = s]
    ELSE s

\* str.lower() on a single character
lower(s) ==
    IF s \in UpperSet
    THEN LowerLetters[CHOOSE j \in 1..26 : UpperLetters[j] = s]
    ELSE s

(***************************************************************************)
(* Python list indexing: index i of a list of length n.                     *)
(***************************************************************************)
IndexInRange(n, i) == -n <= i /\ i < n

PyIndex(n, i) == IF i >= 0 THEN i + 1 ELSE n + i + 1

ListElem(cells) == [k |-> "list", v |-> cells]

StrElem(ch) == [k |-> "str", v |-> <<ch>>]

(***************************************************************************)
(* The special-tile layout the application passes to Board.                 *)
(***************************************************************************)
TW_TILES ==
    { <<0,0>>, <<0,7>>, <<0,14>>, <<7,0>>, <<7,14>>, <<14,0>>, <<14,7>>, <<14,14>> }

DW_TILES ==
    { <<1,1>>, <<2,2>>, <<3,3>>, <<4,4>>, <<10,10>>, <<11,11>>, <<12,12>>, <<13,13>>,
      <<1,13>>, <<2,12>>, <<3,11>>, <<4,10>>, <<10,4>>, <<11,3>>, <<12,2>>, <<13,1>> }

TL_TILES ==
    { <<1,5>>, <<1,9>>, <<5,1>>, <<5,5>>, <<5,9>>, <<5,13>>, <<9,1>>, <<9,5>>,
      <<9,9>>, <<9,13>>, <<13,5>>, <<13,9>> }

DL_TILES ==
    { <<0,3>>, <<0,11>>, <<2,6>>, <<2,8>>, <<3,0>>, <<3,7>>, <<3,14>>, <<6,2>>,
      <<6,6>>, <<6,8>>, <<6,12>>, <<7,3>>, <<7,11>>, <<8,2>>, <<8,6>>, <<8,8>>,
      <<8,12>>, <<11,0>>, <<11,7>>, <<11,14>>, <<12,6>>, <<12,8>>, <<14,3>>, <<14,11>> }

SPECIAL_TILES ==
    [p \in TW_TILES \cup DW_TILES \cup TL_TILES \cup DL_TILES |->
        IF p \in TW_TILES THEN "TW"
        ELSE IF p \in DW_TILES THEN "DW"
        ELSE IF p \in TL_TILES THEN "TL"
        ELSE "DL"]

\* the layout restricted to a rows x cols board
special_tiles_for(rows, cols) ==
    [p \in {q \in DOMAIN SPECIAL_TILES : q[1] < rows /\ q[2] < cols} |-> SPECIAL_TILES[p]]

(***************************************************************************)
(* Board                                                                    *)
(***************************************************************************)
\* Board.__init__: the fields of a new board
NewBoard(rows, cols, special_tiles) ==
    [rows |-> rows,
     cols |-> cols,
     board |-> [r \in 1..rows |-> ListElem([c \in 1..cols |-> ""])],
     special_tiles |-> special_tiles,
     special_tiles_occupied |-> [p \in DOMAIN special_tiles |-> FALSE]]

\* the outcome of a call: the exception raised (or "none"), which check
\* raised it, the object after the call and the value returned
Outcome(exc, msg, self, ret) == [exc |-> exc, msg |-> msg, self |-> self, ret |-> ret]

Return(self, ret) == Outcome("none", "", self, ret)

Raise(exc, msg, self) == Outcome(exc, msg, self, "None")

is_valid_position(self, row, col) ==
    0 <= row /\ row < self.rows /\ 0 <= col /\ col < self.cols

\* self.board[row][col] for a valid position: "IndexError" when the element
\* at row is a one-character string and col > 0
Cell2D(self, row, col) ==
    LET e == self.board[row + 1]
    IN  IF col < Len(e.v) THEN [exc |-> "none", val |-> e.v[col + 1]]
        ELSE [exc |-> "IndexError", val |-> ""]

is_occupied(self, row, col) ==
    IF ~is_valid_position(self, row, col)
    THEN Raise("ValueError", "InvalidPosition", self)
    ELSE LET c == Cell2D(self, row, col)
         IN  IF c.exc # "none" THEN Raise(c.exc, "board[row][col]", self)
             ELSE Return(self, c.val # "")

place_letter(self, letter, row, col) ==
    IF ~IndexInRange(Len(self.board), row)
    THEN Raise("IndexError", "board[row]", self)
    ELSE IF Len(letter) # 1
    THEN Raise("ValueError", "InvalidLetter", self)
    ELSE IF ~isalpha(letter) /\ letter # "0"
    THEN Raise("ValueError", "InvalidLetter", self)
    ELSE IF ~is_valid_position(self, row, col)
    THEN Raise("ValueError", "InvalidPosition", self)
    ELSE LET occ == is_occupied(self, row, col)
         IN  IF occ.exc # "none" THEN Raise(occ.exc, occ.msg, self)
             ELSE IF occ.ret THEN Raise("ValueError", "OccupiedPosition", self)
             ELSE LET stored == IF letter # "0" THEN upper(letter) ELSE ""
                      b2 == [self.board EXCEPT ![row + 1].v[col + 1] = stored]
                      f2 == IF <<row, col>> \in DOMAIN self.special_tiles
                            THEN [self.special_tiles_occupied EXCEPT ![<<row, col>>] = TRUE]
                            ELSE self.special_tiles_occupied
                  IN  Return([self EXCEPT !.board = b2, !.special_tiles_occupied = f2], "None")

clear_position(self, row, col) ==
    IF ~is_valid_position(self, row, col)
    THEN Raise("ValueError", "InvalidPosition", self)
    ELSE LET idx == row * self.cols + col
         IN  IF ~IndexInRange(Len(self.board), idx)
             THEN Raise("IndexError", "board[row*cols+col]", self)
             ELSE LET b2 == [self.board EXCEPT ![PyIndex(Len(self.board), idx)] = StrElem(" ")]
                      f2 == IF <<row, col>> \in DOMAIN self.special_tiles
                            THEN [self.special_tiles_occupied EXCEPT ![<<row, col>>] = FALSE]
                            ELSE self.special_tiles_occupied
                  IN  Return([self EXCEPT !.board = b2, !.special_tiles_occupied = f2], "None")

reset_board(self) ==
    Return([self EXCEPT !.board = [i \in 1..(self.rows * self.cols) |-> StrElem(" ")]], "None")

\* Board.get_letter: the element at the flat index, a row list or a string
get_letter(self, row, col) ==
    IF ~is_valid_position(self, row, col)
    THEN Raise("ValueError", "InvalidPosition", self)
    ELSE LET idx == row * self.cols + col
         IN  IF ~IndexInRange(Len(self.board), idx)
             THEN Raise("IndexError", "board[row*cols+col]", self)
             ELSE Return(self, self.board[PyIndex(Len(self.board), idx)])

\* the cells in the order the nested loops over range(rows), range(cols) visit them
RowMajor(rows, cols) ==
    [i \in 1..(rows * cols) |-> <<(i - 1) \div cols, (i - 1) % cols>>]

\* Board.get_occupied_positions: the first is_occupied that raises ends the call
get_occupied_positions(self) ==
    LET order == RowMajor(self.rows, self.cols)
        RECURSIVE Scan(_, _)
        Scan(i, acc) ==
            IF i > Len(order) THEN Return(self, acc)
            ELSE LET o == is_occupied(self, order[i][1], order[i][2])
                 IN  IF o.exc # "none" THEN Raise(o.exc, o.msg, self)
                     ELSE Scan(i + 1, IF o.ret THEN Append(acc, order[i]) ELSE acc)
    IN  Scan(1, <<>>)

\* Board.has_adjacent_letter: up, down, left, right, stopping at the first
\* occupied neighbour
has_adjacent_letter(self, row, col) ==
    IF ~is_valid_position(self, row, col) THEN Return(self, FALSE)
    ELSE LET adjacent_positions ==
                 << <<row - 1, col>>, <<row + 1, col>>, <<row, col - 1>>, <<row, col + 1>> >>
             RECURSIVE Scan(_)
             Scan(i) ==
                 IF i > 4 THEN Return(self, FALSE)
                 ELSE LET r == adjacent_positions[i][1]
                          c == adjacent_positions[i][2]
                      IN  IF ~is_valid_position(self, r, c) THEN Scan(i + 1)
                          ELSE LET o == is_occupied(self, r, c)
                               IN  IF o.exc # "none" THEN Raise(o.exc, o.msg, self)
                                   ELSE IF o.ret THEN Return(self, TRUE)
                                   ELSE Scan(i + 1)
         IN  Scan(1)

\* the attributes Board.__init__ sets; it sets no center
BoardAttributes ==
    {"rows", "cols", "board", "special_tiles", "special_tiles_occupied", "scoring"}

\* Board.is_valid_placement
is_valid_placement(self, letter, row, col, first_play) ==
    IF Len(letter) # 1 \/ ~isalpha(letter)
    THEN Raise("ValueError", "InvalidLetter", self)
    ELSE IF ~is_valid_position(self, row, col) THEN Return(self, FALSE)
    ELSE LET occ == is_occupied(self, row, col)
         IN  IF occ.exc # "none" THEN Raise(occ.exc, occ.msg, self)
             ELSE IF occ.ret THEN Return(self, FALSE)
             ELSE IF first_play
             THEN IF "center" \notin BoardAttributes
                  THEN Raise("AttributeError", "center", self)
                  ELSE IF row # self.rows \div 2 \/ col # self.cols \div 2
                       THEN Return(self, FALSE)
                       ELSE Return(self, TRUE)
             ELSE LET adj == has_adjacent_letter(self, row, col)
                  IN  IF adj.exc # "none" THEN Raise(adj.exc, adj.msg, self)
                      ELSE Return(self, adj.ret)

\* the cell the i-th letter (from 0) of a word starting at (row, col) falls on
WordCell(row, col, direction, i) ==
    IF direction = "horizontal" THEN <<row, col + i>> ELSE <<row + i, col>>

\* Board.place_word; word is the sequence of its characters.  The conflict
\* check reads is_occupied (board[row][col]) and get_letter (the flat index);
\* the placing loop writes through the flat index, letter by letter, so an
\* exception part-way leaves the letters already written.
place_word(self, word, row, col, direction) ==
    LET n == Len(word)
        RECURSIVE Conflicts(_, _)
        Conflicts(i, found) ==
            IF i > n THEN Return(self, found)
            ELSE LET p == WordCell(row, col, direction, i - 1)
                     occ == is_occupied(self, p[1], p[2])
                 IN  IF occ.exc # "none" THEN Raise(occ.exc, occ.msg, self)
                     ELSE IF ~occ.ret THEN Conflicts(i + 1, found)
                     ELSE LET g == get_letter(self, p[1], p[2])
                          IN  IF g.exc # "none" THEN Raise(g.exc, g.msg, self)
                              ELSE Conflicts(i + 1, found \/ g.ret # StrElem(word[i]))
        RECURSIVE Place(_, _)
        Place(i, cur) ==
            IF i > n THEN Return(cur, TRUE)
            ELSE LET p == WordCell(row, col, direction, i - 1)
                     occ == is_occupied(cur, p[1], p[2])
                     idx == p[1] * cur.cols + p[2]
                 IN  IF occ.exc # "none" THEN Raise(occ.exc, occ.msg, cur)
                     ELSE IF occ.ret THEN Place(i + 1, cur)
                     ELSE IF ~IndexInRange(Len(cur.board), idx)
                     THEN Raise("IndexError", "board[row*cols+col]", cur)
                     ELSE LET b2 == [cur.board EXCEPT
                                       ![PyIndex(Len(cur.board), idx)] = StrElem(upper(word[i]))]
                              f2 == IF p \in DOMAIN cur.special_tiles
                                    THEN [cur.special_tiles_occupied EXCEPT ![p] = TRUE]
                                    ELSE cur.special_tiles_occupied
                          IN  Place(i + 1, [cur EXCEPT !.board = b2,
                                                       !.special_tiles_occupied = f2])
    IN  IF n = 0 THEN Raise("ValueError", "InvalidWord", self)
        ELSE IF \E i \in 1..n : ~isalpha(word[i]) THEN Raise("ValueError", "InvalidWord", self)
        ELSE IF direction \notin {"horizontal", "vertical"}
        THEN Raise("ValueError", "InvalidDirection", self)
        ELSE IF direction = "horizontal" /\ col + n > self.cols
        THEN Raise("ValueError", "DoesNotFit", self)
        ELSE IF direction = "vertical" /\ row + n > self.rows
        THEN Raise("ValueError", "DoesNotFit", self)
        ELSE LET cf == Conflicts(1, FALSE)
             IN  IF cf.exc # "none" THEN Raise(cf.exc, cf.msg, self)
                 ELSE IF cf.ret THEN Raise("ValueError", "Conflict", self)
                 ELSE Place(1, self)

\* Board.get_special_tiles
get_special_tiles(self) ==
    [p \in {q \in DOMAIN self.special_tiles : ~self.special_tiles_occupied[q]} |->
        self.special_tiles[p]]

\* the letters the board object holds, whatever shape its elements have
TilesOnBoard(b) ==
    LET Tiles(e) == IF e.k = "list"
                    THEN Cardinality({c \in DOMAIN e.v : e.v[c] # ""})
                    ELSE IF e.v[1] \in UpperSet THEN 1 ELSE 0
        RECURSIVE Sum(_)
        Sum(i) == IF i = 0 THEN 0 ELSE Tiles(b[i]) + Sum(i - 1)
    IN  Sum(Len(b))

(***************************************************************************)
(* Python dictionaries: a function whose domain is the set of keys.         *)
(***************************************************************************)
EmptyDict == [x \in {} |-> 0]

DictGet(d, k, default) == IF k \in DOMAIN d THEN d[k] ELSE default

DictSet(d, k, v) == [x \in DOMAIN d \cup {k} |-> IF x = k THEN v ELSE d[x]]

DictDel(d, k) == [x \in DOMAIN d \ {k} |-> d[x]]

\* sum(d.values())
RECURSIVE SumValues(_)
SumValues(d) ==
    IF DOMAIN d = {} THEN 0
    ELSE LET k == CHOOSE x \in DOMAIN d : TRUE
         IN  d[k] + SumValues(DictDel(d, k))

\* list.remove(x): the first occurrence goes
RECURSIVE RemoveFirst(_, _)
RemoveFirst(s, x) ==
    IF s = <<>> THEN <<>>
    ELSE IF Head(s) = x THEN Tail(s)
    ELSE <<Head(s)>> \o RemoveFirst(Tail(s), x)

(***************************************************************************)
(* LetterBank                                                               *)
(***************************************************************************)
LETTER_FREQUENCIES ==
    ("a" :> 9)  @@ ("b" :> 2)  @@ ("c" :> 2)  @@ ("d" :> 4)  @@ ("e" :> 12) @@
    ("f" :> 2)  @@ ("g" :> 3)  @@ ("h" :> 6)  @@ ("i" :> 9)  @@ ("j" :> 1)  @@
    ("k" :> 1)  @@ ("l" :> 4)  @@ ("m" :> 2)  @@ ("n" :> 6)  @@ ("o" :> 8)  @@
    ("p" :> 2)  @@ ("q" :> 1)  @@ ("r" :> 6)  @@ ("s" :> 4)  @@ ("t" :> 6)  @@
    ("u" :> 4)  @@ ("v" :> 2)  @@ ("w" :> 2)  @@ ("x" :> 1)  @@ ("y" :> 2)  @@
    ("z" :> 1)  @@ ("0" :> 2)

LETTER_VALUES ==
    ("a" :> 1)  @@ ("b" :> 3)  @@ ("c" :> 3)  @@ ("d" :> 2)  @@ ("e" :> 1)  @@
    ("f" :> 4)  @@ ("g" :> 2)  @@ ("h" :> 4)  @@ ("i" :> 1)  @@ ("j" :> 8)  @@
    ("k" :> 5)  @@ ("l" :> 1)  @@ ("m" :> 3)  @@ ("n" :> 1)  @@ ("o" :> 1)  @@
    ("p" :> 3)  @@ ("q" :> 10) @@ ("r" :> 1)  @@ ("s" :> 1)  @@ ("t" :> 1)  @@
    ("u" :> 1)  @@ ("v" :> 4)  @@ ("w" :> 4)  @@ ("x" :> 8)  @@ ("y" :> 4)  @@
    ("z" :> 10) @@ ("0" :> 0)

\* LetterBank.__init__
NewLetterBank ==
    [letter_bank |-> LETTER_FREQUENCIES,
     letter_bank_total |-> SumValues(LETTER_FREQUENCIES)]

\* init_letter_bank without the recount: the counts are restored and
\* letter_bank_total is left as it was
init_letter_bank_keeps_total(self) ==
    Return([self EXCEPT !.letter_bank = LETTER_FREQUENCIES], "None")

\* LetterBank.init_letter_bank
init_letter_bank(self) ==
    Return([self EXCEPT !.letter_bank = LETTER_FREQUENCIES,
                        !.letter_bank_total = SumValues(LETTER_FREQUENCIES)],
           "None")

\* the letters random.choice is taken to return: the first PoolSize entries
\* of this order that the bank can still supply
RandomOrder == <<"0", "e", "q", "a", "b">>

RandomPool ==
    {RandomOrder[i] : i \in {j \in DOMAIN RandomOrder : j <= PoolSize}}

\* a choice among all the keys of the bank, whatever their counts
get_random_letter_any(self) ==
    IF DOMAIN self.letter_bank = {} THEN {"None"}
    ELSE DOMAIN self.letter_bank \cap RandomPool

\* LetterBank._get_random_letter: the letters it may return; "None" when no
\* letter has a positive count
get_random_letter(self) ==
    LET letters == {l \in DOMAIN self.letter_bank : self.letter_bank[l] > 0}
    IN  IF letters = {} THEN {"None"} ELSE letters \cap RandomPool

\* LetterBank.draw_tiles: every result the random draws can give.  ret is
\* the drawn letters in the order drawn, which is the insertion order of the
\* dictionary the code returns.  Drawing None raises KeyError at
\* self.letter_bank[letter] -= 1.
RECURSIVE draw_tiles(_, _)
draw_tiles(self, num_tiles) ==
    IF num_tiles <= 0 \/ self.letter_bank_total = 0 THEN {Return(self, <<>>)}
    ELSE UNION {
        IF letter = "None" THEN {Raise("KeyError", "None", self)}
        ELSE LET drawn == [self EXCEPT !.letter_bank[letter] = @ - 1,
                                       !.letter_bank_total = @ - 1]
             IN  {IF o.exc = "none" THEN Return(o.self, <<letter>> \o o.ret) ELSE o :
                     o \in draw_tiles(drawn, num_tiles - 1)} :
        letter \in get_random_letter(self)}

\* a return that raises the letter's count and not the total
return_tiles_uncounted(self, letter, num_tiles) ==
    IF letter \in DOMAIN self.letter_bank
    THEN Return([self EXCEPT !.letter_bank[letter] = @ + num_tiles], "None")
    ELSE Raise("ValueError", "Invalid letter returned to the bank.", self)

\* LetterBank.return_tiles
return_tiles(self, letter, num_tiles) ==
    IF letter \in DOMAIN self.letter_bank
    THEN Return([self EXCEPT !.letter_bank[letter] = @ + num_tiles,
                             !.letter_bank_total = @ + num_tiles], "None")
    ELSE Raise("ValueError", "Invalid letter returned to the bank.", self)

\* LetterBank.bank_empty
bank_empty(self) == self.letter_bank_total = 0

\* LetterBank.has_letters, on a word already lowercased
RECURSIVE has_letters_from(_, _)
has_letters_from(temp_bank, word) ==
    IF word = <<>> THEN TRUE
    ELSE IF Head(word) \notin DOMAIN temp_bank \/ temp_bank[Head(word)] <= 0 THEN FALSE
    ELSE has_letters_from([temp_bank EXCEPT ![Head(word)] = @ - 1], Tail(word))

has_letters(self, word) ==
    has_letters_from(self.letter_bank, [i \in DOMAIN word |-> lower(word[i])])

\* LetterBank.use_letters: a letter whose count reaches zero loses its key
RECURSIVE use_each(_, _)
use_each(self, word) ==
    IF word = <<>> THEN self
    ELSE LET letter == Head(word)
             count == self.letter_bank[letter] - 1
             used == [letter_bank |-> IF count = 0 THEN DictDel(self.letter_bank, letter)
                                      ELSE [self.letter_bank EXCEPT ![letter] = count],
                      letter_bank_total |-> self.letter_bank_total - 1]
         IN  use_each([self EXCEPT !.letter_bank = used.letter_bank,
                                   !.letter_bank_total = used.letter_bank_total],
                      Tail(word))

use_letters(self, word) ==
    IF ~has_letters(self, word) THEN Return(self, FALSE)
    ELSE Return(use_each(self, [i \in DOMAIN word |-> lower(word[i])]), TRUE)

(***************************************************************************)
(* PlayerHand.  A hand refers to its bank, so one record carries both: the  *)
(* bank's letter_bank and letter_bank_total and the hand's hand,            *)
(* hand_total, letter_order and max_size.                                   *)
(***************************************************************************)
\* LetterBank.create_player_hand and PlayerHand.__init__
create_player_hand(bank, max_size) ==
    [letter_bank |-> bank.letter_bank, letter_bank_total |-> bank.letter_bank_total,
     max_size |-> max_size, hand |-> EmptyDict, hand_total |-> 0, letter_order |-> <<>>]

\* a dictionary of drawn tiles lists each letter once, in the order of its
\* first draw; appending each letter count times groups the draws by letter
RECURSIVE GroupByLetter(_)
GroupByLetter(drawn) ==
    IF drawn = <<>> THEN <<>>
    ELSE SelectSeq(drawn, LAMBDA l : l = Head(drawn))
         \o GroupByLetter(SelectSeq(drawn, LAMBDA l : l # Head(drawn)))

RECURSIVE AddCounts(_, _)
AddCounts(counts, drawn) ==
    IF drawn = <<>> THEN counts
    ELSE AddCounts(DictSet(counts, Head(drawn), DictGet(counts, Head(drawn), 0) + 1),
                   Tail(drawn))

\* an add_letter that never refuses
add_letter_always(self, letter) ==
    Return([self EXCEPT !.hand = DictSet(@, letter, DictGet(@, letter, 0) + 1),
                        !.hand_total = @ + 1,
                        !.letter_order = Append(@, letter)], TRUE)

\* PlayerHand.add_letter
add_letter(self, letter) ==
    IF self.hand_total >= self.max_size THEN Return(self, FALSE)
    ELSE Return([self EXCEPT !.hand = DictSet(@, letter, DictGet(@, letter, 0) + 1),
                             !.hand_total = @ + 1,
                             !.letter_order = Append(@, letter)], TRUE)

\* a removal that leaves letter_order as it was
remove_letter_unlisted(self, letter) ==
    IF letter \in DOMAIN self.hand /\ self.hand[letter] > 0
    THEN Return([self EXCEPT !.hand = IF @[letter] = 1 THEN DictDel(@, letter)
                                      ELSE [@ EXCEPT ![letter] = @ - 1],
                             !.hand_total = @ - 1], TRUE)
    ELSE Return(self, FALSE)

\* PlayerHand.remove_letter: list.remove raises ValueError when the letter is
\* not in letter_order, after hand and hand_total have changed
remove_letter(self, letter) ==
    IF letter \in DOMAIN self.hand /\ self.hand[letter] > 0
    THEN LET counted == [self EXCEPT !.hand = IF @[letter] = 1 THEN DictDel(@, letter)
                                              ELSE [@ EXCEPT ![letter] = @ - 1],
                                     !.hand_total = @ - 1]
         IN  IF letter \in Range(self.letter_order)
             THEN Return([counted EXCEPT !.letter_order = RemoveFirst(@, letter)], TRUE)
             ELSE Raise("ValueError", "list.remove(x): x not in list", counted)
    ELSE Return(self, FALSE)

\* PlayerHand.refill with an explicit count
refill(self, count) ==
    IF count <= 0 THEN {Return(self, 0)}
    ELSE {IF d.exc # "none" THEN d
          ELSE Return([d.self EXCEPT !.hand = AddCounts(@, d.ret),
                                     !.letter_order = @ \o GroupByLetter(d.ret),
                                     !.hand_total = @ + Len(d.ret)],
                      Len(d.ret)) :
          d \in draw_tiles(self, count)}

\* PlayerHand.refill(None): fill to max_size
refill_to_max(self) == refill(self, self.max_size - self.hand_total)

\* PlayerHand.fill_initial_hand
fill_initial_hand(self) == refill(self, self.max_size - self.hand_total)

\* LetterBank.refill_hand
refill_hand(self, num_tiles) ==
    IF self.letter_bank_total = 0 THEN {Return(self, FALSE)}
    ELSE {IF d.exc # "none" THEN d
          ELSE Return([d.self EXCEPT !.hand = AddCounts(@, d.ret),
                                     !.letter_order = @ \o GroupByLetter(d.ret),
                                     !.hand_total = @ + Len(d.ret)],
                      TRUE) :
          d \in draw_tiles(self, num_tiles)}

\* PlayerHand.return_to_bank
return_to_bank(self, letter) ==
    LET removed == remove_letter(self, letter)
    IN  IF removed.exc # "none" THEN removed
        ELSE IF ~removed.ret THEN Return(removed.self, FALSE)
        ELSE LET returned == return_tiles(removed.self, letter, 1)
             IN  IF returned.exc = "none" THEN Return(returned.self, TRUE)
                 ELSE Return(add_letter(returned.self, letter).self, FALSE)

\* PlayerHand.return_all_to_bank: ret counts the letters returned
RECURSIVE return_each(_, _, _)
return_each(self, letters_to_return, returned) ==
    IF letters_to_return = <<>> THEN Return(self, returned)
    ELSE LET out == return_to_bank(self, Head(letters_to_return))
         IN  IF out.exc # "none" THEN out
             ELSE return_each(out.self, Tail(letters_to_return),
                              IF out.ret THEN returned + 1 ELSE returned)

return_all_to_bank(self) == return_each(self, self.letter_order, 0)

\* PlayerHand.exchange_letters: ret is the list of letters received
RECURSIVE exchange_return(_, _)
exchange_return(self, letters) ==
    IF letters = <<>> THEN Return(self, TRUE)
    ELSE LET out == return_to_bank(self, Head(letters))
         IN  IF out.exc # "none" \/ ~out.ret THEN out
             ELSE exchange_return(out.self, Tail(letters))

exchange_letters(self, letters_to_exchange) ==
    IF bank_empty(self) THEN {Return(self, <<>>)}
    ELSE LET back == exchange_return(self, letters_to_exchange)
         IN  IF back.exc # "none" THEN {back}
             ELSE IF ~back.ret THEN {Return(back.self, <<>>)}
             ELSE {IF r.exc # "none" THEN r
                   ELSE Return(r.self,
                               IF r.ret > 0
                               THEN SubSeq(r.self.letter_order,
                                           Len(r.self.letter_order) - r.ret + 1,
                                           Len(r.self.letter_order))
                               ELSE <<>>) :
                   r \in refill(back.self, Len(letters_to_exchange))}

\* PlayerHand.can_form_word: the letters of the word as they are written
can_form_word(self, word) == has_letters_from(self.hand, word)

\* PlayerHand.shuffle_letters: every order random.shuffle can leave
Orderings(s) ==
    {p \in [DOMAIN s -> Range(s)] :
        \A x \in Range(s) : Cardinality({i \in DOMAIN s : p[i] = x})
                            = Cardinality({i \in DOMAIN s : s[i] = x})}

\* a shuffle that refills each place with any letter of the hand
shuffle_letters_any(self) ==
    IF self.letter_order = <<>> THEN {Return(self, FALSE)}
    ELSE {Return([self EXCEPT !.letter_order = p], TRUE) :
             p \in [DOMAIN self.letter_order -> Range(self.letter_order)]}

shuffle_letters(self) ==
    IF self.letter_order = <<>> THEN {Return(self, FALSE)}
    ELSE {Return([self EXCEPT !.letter_order = p], TRUE) : p \in Orderings(self.letter_order)}

\* the tiles a hand holds, by its dictionary
TilesInHand(counts) == SumValues(counts)

(***************************************************************************)
(* Board.get_all_words.  A word is the sequence of its characters; an entry *)
(* of the result is <<word, positions>>.                                    *)
(***************************************************************************)
\* the lines the two loops scan: the rows left to right, then the columns
\* top to bottom
ScanLines(rows, cols) ==
    [i \in 1..(rows + cols) |->
        IF i <= rows THEN [c \in 1..cols |-> <<i - 1, c - 1>>]
        ELSE [r \in 1..rows |-> <<r - 1, i - rows - 1>>]]

\* a scan that takes the letters off the board as it reads them
get_all_words_taking(self) ==
    Return([self EXCEPT !.board = NewBoard(self.rows, self.cols, self.special_tiles).board],
           <<>>)

get_all_words(self) ==
    LET lines == ScanLines(self.rows, self.cols)
        Close(current_word, positions, words) ==
            IF Len(current_word) > 1 THEN Append(words, <<current_word, positions>>)
            ELSE words
        \* the inner loop over the cells of line i; ret is the list of words
        RECURSIVE Line(_, _, _, _, _)
        Line(i, j, current_word, positions, words) ==
            IF j > Len(lines[i])
            THEN Return(self, Close(current_word, positions, words))
            ELSE LET p == lines[i][j]
                     c == Cell2D(self, p[1], p[2])
                 IN  IF c.exc # "none" THEN Raise(c.exc, "board[row][col]", self)
                     ELSE IF c.val # ""
                     THEN Line(i, j + 1, Append(current_word, c.val),
                               Append(positions, p), words)
                     ELSE Line(i, j + 1, <<>>, <<>>, Close(current_word, positions, words))
        \* the outer loops over the rows, then the columns
        RECURSIVE Scan(_, _)
        Scan(i, words) ==
            IF i > Len(lines) THEN Return(self, words)
            ELSE LET line == Line(i, 1, <<>>, <<>>, words)
                 IN  IF line.exc # "none" THEN line
                     ELSE Scan(i + 1, line.ret)
    IN  Scan(1, <<>>)

\* the loop "word += self.board[row * self.cols + c]" over the cells of a
\* run: the flat index may be out of range, and the element it finds may be
\* a row list, which cannot be added to a string
ConcatFlat(self, cells) ==
    LET RECURSIVE Build(_, _)
        Build(i, word) ==
            IF i > Len(cells) THEN Return(self, word)
            ELSE LET idx == cells[i][1] * self.cols + cells[i][2]
                 IN  IF ~IndexInRange(Len(self.board), idx)
                     THEN Raise("IndexError", "board[row*cols+col]", self)
                     ELSE LET e == self.board[PyIndex(Len(self.board), idx)]
                          IN  IF e.k # "str" THEN Raise("TypeError", "str + list", self)
                              ELSE Build(i + 1, word \o e.v)
    IN  Build(1, <<>>)

\* the two while loops of get_horizontal_word and get_vertical_word: from
\* (row, col) step by (drow, dcol) while the next cell is on the board and
\* is_occupied answers true; ret is the number of steps taken
RunLength(self, row, col, drow, dcol) ==
    LET RECURSIVE Walk(_)
        Walk(k) ==
            LET r == row + (k + 1) * drow
                c == col + (k + 1) * dcol
            IN  IF ~is_valid_position(self, r, c) THEN Return(self, k)
                ELSE LET o == is_occupied(self, r, c)
                     IN  IF o.exc # "none" THEN Raise(o.exc, o.msg, self)
                         ELSE IF o.ret THEN Walk(k + 1)
                         ELSE Return(self, k)
    IN  Walk(0)

\* Board.get_horizontal_word; ret is the word as the sequence of its characters
get_horizontal_word(self, row, col) ==
    IF ~is_valid_position(self, row, col) THEN Return(self, <<>>)
    ELSE LET occ == is_occupied(self, row, col)
         IN  IF occ.exc # "none" THEN Raise(occ.exc, occ.msg, self)
             ELSE IF ~occ.ret THEN Return(self, <<>>)
             ELSE LET left == RunLength(self, row, col, 0, -1)
                  IN  IF left.exc # "none" THEN Raise(left.exc, left.msg, self)
                      ELSE LET right == RunLength(self, row, col, 0, 1)
                           IN  IF right.exc # "none" THEN Raise(right.exc, right.msg, self)
                               ELSE ConcatFlat(self,
                                       [i \in 1..(left.ret + right.ret + 1) |->
                                           <<row, col - left.ret + i - 1>>])

\* Board.get_vertical_word
get_vertical_word(self, row, col) ==
    IF ~is_valid_position(self, row, col) THEN Return(self, <<>>)
    ELSE LET occ == is_occupied(self, row, col)
         IN  IF occ.exc # "none" THEN Raise(occ.exc, occ.msg, self)
             ELSE IF ~occ.ret THEN Return(self, <<>>)
             ELSE LET up == RunLength(self, row, col, -1, 0)
                  IN  IF up.exc # "none" THEN Raise(up.exc, up.msg, self)
                      ELSE LET down == RunLength(self, row, col, 1, 0)
                           IN  IF down.exc # "none" THEN Raise(down.exc, down.msg, self)
                               ELSE ConcatFlat(self,
                                       [i \in 1..(up.ret + down.ret + 1) |->
                                           <<row - up.ret + i - 1, col>>])

\* Board.calculate_coverage: (occupied / total) * 100 as the fraction
\* <<occupied * 100, total>>
calculate_coverage(self) ==
    LET occupied_positions == get_occupied_positions(self)
    IN  IF occupied_positions.exc # "none"
        THEN Raise(occupied_positions.exc, occupied_positions.msg, self)
        ELSE Return(self, <<Len(occupied_positions.ret) * 100, self.rows * self.cols>>)

(***************************************************************************)
(* Scoring                                                                  *)
(***************************************************************************)
bingo_bonus == 50

connection_points == 2

bingo_length == 7

\* Scoring.__init__
NewScoring(special_tiles, letter_scores) ==
    [special_tiles |-> special_tiles, letter_scores |-> letter_scores,
     total_score |-> 0, bingo_bonus |-> bingo_bonus, word_scores |-> EmptyDict,
     total_words_formed |-> 0, longest_word |-> <<>>, highest_scoring_word |-> <<>>,
     highest_word_score |-> 0, turns_played |-> 0, tiles_placed |-> 0,
     words_by_length |-> EmptyDict]

\* Scoring.reset_score
reset_score(self) ==
    Return([self EXCEPT !.total_score = 0, !.word_scores = EmptyDict], "None")

\* Scoring.get_letter_score
get_letter_score(self, letter) == DictGet(self.letter_scores, lower(letter), 0)

\* a scorer that adds the letter values and nothing else
calculate_word_score_plain(self, word, positions) ==
    LET RECURSIVE Letters(_, _)
        Letters(i, word_score) ==
            IF i > Len(word) THEN word_score
            ELSE Letters(i + 1, word_score + get_letter_score(self, word[i]))
    IN  Letters(1, 0)

\* Scoring.calculate_word_score, for positions at least as long as the word;
\* int(word_score * 1.5) is (word_score * 3) \div 2 for a score that is not
\* negative
calculate_word_score(self, word, positions) ==
    LET RECURSIVE Letters(_, _, _)
        Letters(i, word_score, word_multiplier) ==
            IF i > Len(word) THEN word_score * word_multiplier
            ELSE LET position == positions[i]
                     letter_score == get_letter_score(self, word[i])
                     special_tile == IF position \in DOMAIN self.special_tiles
                                     THEN self.special_tiles[position] ELSE "none"
                 IN  Letters(i + 1,
                             word_score + (IF special_tile = "DL" THEN letter_score * 2
                                           ELSE IF special_tile = "TL" THEN letter_score * 3
                                           ELSE letter_score),
                             IF special_tile = "DW" THEN word_multiplier * 2
                             ELSE IF special_tile = "TW" THEN word_multiplier * 3
                             ELSE word_multiplier)
        word_score == Letters(1, 0, 1)
    IN  IF Len(word) >= 7 THEN word_score * 3
        ELSE IF Len(word) = 6 THEN word_score * 2
        ELSE IF Len(word) = 5 THEN (word_score * 3) \div 2
        ELSE word_score

\* Scoring.is_bingo
is_bingo(word) == Len(word) = bingo_length

\* Scoring.calculate_connection_bonus
calculate_connection_bonus(positions, existing_positions) ==
    Cardinality(Range(positions) \cap Range(existing_positions)) * connection_points

\* a coverage percentage is the fraction <<numerator, denominator>>;
\* coverage_percentage >= threshold
AtLeast(coverage_percentage, threshold) ==
    coverage_percentage[1] >= threshold * coverage_percentage[2]

\* a coverage bonus whose steps start above their thresholds
calculate_coverage_bonus_above(coverage_percentage) ==
    LET Above(t) == coverage_percentage[1] > t * coverage_percentage[2]
    IN  IF Above(100) THEN 2000
        ELSE IF Above(90) THEN 1000
        ELSE IF Above(80) THEN 750
        ELSE IF Above(70) THEN 500
        ELSE IF Above(60) THEN 350
        ELSE IF Above(50) THEN 200
        ELSE IF Above(40) THEN 100
        ELSE IF Above(30) THEN 50
        ELSE 0

\* Scoring.calculate_coverage_bonus
calculate_coverage_bonus(coverage_percentage) ==
    IF AtLeast(coverage_percentage, 100) THEN 2000
    ELSE IF AtLeast(coverage_percentage, 90) THEN 1000
    ELSE IF AtLeast(coverage_percentage, 80) THEN 750
    ELSE IF AtLeast(coverage_percentage, 70) THEN 500
    ELSE IF AtLeast(coverage_percentage, 60) THEN 350
    ELSE IF AtLeast(coverage_percentage, 50) THEN 200
    ELSE IF AtLeast(coverage_percentage, 40) THEN 100
    ELSE IF AtLeast(coverage_percentage, 30) THEN 50
    ELSE 0

\* a complexity bonus that pays 50 for words of exactly seven letters only
calculate_complexity_bonus_seven(words_by_length) ==
    LET Count(length) == DictGet(words_by_length, length, 0)
    IN  Count(5) * 10 + Count(6) * 20 + Count(7) * 50

\* Scoring.calculate_complexity_bonus, over the lengths in the histogram
calculate_complexity_bonus(words_by_length) ==
    LET RECURSIVE Items(_)
        Items(lengths) ==
            IF lengths = {} THEN 0
            ELSE LET length == CHOOSE l \in lengths : TRUE
                     count == words_by_length[length]
                 IN  Items(lengths \ {length})
                     + (IF length >= 7 THEN count * 50
                        ELSE IF length = 6 THEN count * 20
                        ELSE IF length = 5 THEN count * 10
                        ELSE 0)
    IN  Items(DOMAIN words_by_length)

\* a check that accepts shared rows only
validate_word_positions_rows(word, positions) ==
    Cardinality({positions[i][1] : i \in DOMAIN positions}) = 1

\* Scoring.validate_word_positions
validate_word_positions(word, positions) ==
    \/ Cardinality({positions[i][1] : i \in DOMAIN positions}) = 1
    \/ Cardinality({positions[i][2] : i \in DOMAIN positions}) = 1

\* a scorer that pays no bingo bonus: the turn score is the sum of the word
\* scores and connection bonuses alone
calculate_turn_score_no_bingo(self, words, board_positions) ==
    LET current_word_positions == UNION {Range(words[i][2]) : i \in DOMAIN words}
        existing_positions ==
            SelectSeq(board_positions, LAMBDA pos : pos \notin current_word_positions)
        RECURSIVE Words(_, _)
        Words(i, turn_score) ==
            IF i > Len(words) THEN Return([self EXCEPT !.total_score = @ + turn_score,
                                                       !.turns_played = @ + 1],
                                          turn_score)
            ELSE Words(i + 1,
                       turn_score + calculate_word_score(self, words[i][1], words[i][2])
                       + (IF existing_positions # <<>>
                          THEN calculate_connection_bonus(words[i][2], existing_positions)
                          ELSE 0))
    IN  Words(1, 0)

\* Scoring.calculate_turn_score; board_positions is <<>> when the caller
\* passes none.  ret is the turn score.
calculate_turn_score(self, words, board_positions) ==
    LET current_word_positions == UNION {Range(words[i][2]) : i \in DOMAIN words}
        existing_positions ==
            SelectSeq(board_positions, LAMBDA pos : pos \notin current_word_positions)
        RECURSIVE Words(_, _, _)
        Words(i, s, turn_score) ==
            IF i > Len(words) THEN Return([s EXCEPT !.total_score = @ + turn_score,
                                                    !.turns_played = @ + 1],
                                          turn_score)
            ELSE LET word == words[i][1]
                     positions == words[i][2]
                     word_score ==
                         calculate_word_score(s, word, positions)
                         + (IF existing_positions # <<>>
                            THEN calculate_connection_bonus(positions, existing_positions)
                            ELSE 0)
                     higher == word_score > s.highest_word_score
                 IN  Words(i + 1,
                           [s EXCEPT
                              !.word_scores = DictSet(@, word, word_score),
                              !.total_words_formed = @ + 1,
                              !.tiles_placed = @ + Len(positions),
                              !.words_by_length =
                                  DictSet(@, Len(word), DictGet(@, Len(word), 0) + 1),
                              !.longest_word =
                                  IF Len(word) > Len(@) THEN word ELSE @,
                              !.highest_word_score = IF higher THEN word_score ELSE @,
                              !.highest_scoring_word = IF higher THEN word ELSE @],
                           turn_score + word_score
                           + (IF is_bingo(word) THEN s.bingo_bonus ELSE 0))
    IN  Words(1, self, 0)

(***************************************************************************)
(* WordValidator                                                            *)
(***************************************************************************)
\* the words of the dictionary table the validator builds when it finds no
\* database (_create_fallback_dictionary), each as its sequence of letters
common_words ==
    {<<"t", "h", "e">>, <<"b", "e">>, <<"t", "o">>, <<"o", "f">>,
     <<"a", "n", "d">>, <<"a">>, <<"i", "n">>, <<"t", "h", "a", "t">>,
     <<"h", "a", "v", "e">>, <<"i", "t">>, <<"f", "o", "r">>,
     <<"n", "o", "t">>, <<"o", "n">>, <<"w", "i", "t", "h">>, <<"h", "e">>,
     <<"a", "s">>, <<"y", "o", "u">>, <<"d", "o">>, <<"a", "t">>,
     <<"t", "h", "i", "s">>, <<"b", "u", "t">>, <<"h", "i", "s">>,
     <<"b", "y">>, <<"f", "r", "o", "m">>, <<"t", "h", "e", "y">>,
     <<"w", "e">>, <<"s", "a", "y">>, <<"h", "e", "r">>, <<"s", "h", "e">>,
     <<"o", "r">>, <<"a", "n">>, <<"w", "i", "l", "l">>, <<"m", "y">>,
     <<"o", "n", "e">>, <<"a", "l", "l">>, <<"w", "o", "u", "l", "d">>,
     <<"t", "h", "e", "r", "e">>, <<"t", "h", "e", "i", "r">>,
     <<"w", "h", "a", "t">>, <<"s", "o">>, <<"u", "p">>, <<"o", "u", "t">>,
     <<"i", "f">>, <<"a", "b", "o", "u", "t">>, <<"w", "h", "o">>,
     <<"g", "e", "t">>, <<"w", "h", "i", "c", "h">>, <<"g", "o">>,
     <<"m", "e">>, <<"g", "a", "m", "e">>, <<"p", "l", "a", "y">>,
     <<"w", "o", "r", "d">>, <<"l", "e", "t", "t", "e", "r">>,
     <<"s", "c", "o", "r", "e">>, <<"b", "o", "a", "r", "d">>,
     <<"t", "i", "l", "e", "s">>, <<"w", "i", "n">>, <<"d", "a", "r", "e">>,
     <<"d", "a", "t", "e">>, <<"d", "a", "t", "a">>, <<"d", "a", "r", "k">>,
     <<"d", "a", "s", "h">>, <<"d", "a", "r", "n">>, <<"d", "a", "r", "t">>}

\* what MerriamWebsterAPI.is_valid_word may answer: True, False, or None when
\* it has no key, no reply or an error
ApiAnswers == {"True", "False", "None"}

\* what the request of is_valid_word may meet: a 200 reply with a
\* definition that is not an abbreviation, a 200 reply without one, a reply
\* of another status, or an exception (timeout, no connection, bad JSON)
Responses == {"defined", "undefined", "status", "error"}

\* MerriamWebsterAPI.is_valid_word: the answer held in cached_validations,
\* else the one held in the definitions table (db_cached, "None" when the
\* table has none or cannot be read), else None without an API key, else
\* what the reply says, which is cached; None on any other status or error.
\* Gives the answer and cached_validations after the call.
is_valid_word(word, cached_validations, db_cached, api_key, response) ==
    LET lowered == [i \in DOMAIN word |-> lower(word[i])]
        keep(ret) == [ret |-> ret, cached_validations |-> cached_validations]
        store(ret) == [ret |-> ret,
                       cached_validations |-> DictSet(cached_validations, lowered, ret)]
    IN  IF lowered \in DOMAIN cached_validations THEN keep(cached_validations[lowered])
        ELSE IF db_cached # "None" THEN store(db_cached)
        ELSE IF ~api_key THEN keep("None")
        ELSE IF response = "defined" THEN store("True")
        ELSE IF response = "undefined" THEN store("False")
        ELSE keep("None")

\* validate_word without the dictionary table: the API's answer alone
validate_word_api_only(word, api_result) == api_result = "True"

\* WordValidator.validate_word, given the API's answer: that answer when it
\* is one, else the dictionary table
validate_word(word, api_result) ==
    LET lowered == [i \in DOMAIN word |-> lower(word[i])]
    IN  IF api_result # "None" THEN api_result = "True"
        ELSE lowered \in common_words

(***************************************************************************)
(* Game (game.py): the turn logic over a board, as its methods are written  *)
(***************************************************************************)
\* Game.__init__: the fields it assigns beside the board, bank, validator
\* and scorer
Game ==
    [current_score |-> 0, played_words |-> <<>>,
     current_turn_letters |-> <<>>, current_turn_positions |-> <<>>,
     turn_number |-> 1, first_play |-> TRUE]

\* list.index(x): the first index holding x (1-based here)
IndexOf(seq, x) == CHOOSE i \in DOMAIN seq : seq[i] = x /\ \A j \in 1..(i - 1) : seq[j] # x

\* list.pop(index)
Pop(seq, i) == SubSeq(seq, 1, i - 1) \o SubSeq(seq, i + 1, Len(seq))

\* Game.place_letter: the first statement asks the board is_position_empty,
\* a method Board does not define; the except clause takes ValueError only.
\* self is the pair of the game's fields and its board.
Game_place_letter(self, letter, row, col) ==
    Raise("AttributeError", "'Board' object has no attribute 'is_position_empty'", self)

\* Game.remove_letter: the letter is read with Board.get_letter; a tracked
\* position is dropped from both lists and cleared on the board, and then
\* the letter is handed to LetterBank.add_letter, a method LetterBank does
\* not define
Game_remove_letter(self, row, col) ==
    LET got == get_letter(self.board, row, col)
        g == self.game
        position == <<row, col>>
    IN  IF got.exc # "none" THEN Raise(got.exc, got.msg, self)
        ELSE IF got.ret = StrElem("0") THEN Return(self, "None")
        ELSE IF position \in Range(g.current_turn_positions)
        THEN LET index == IndexOf(g.current_turn_positions, position)
                 g2 == [g EXCEPT !.current_turn_letters = Pop(@, index),
                                 !.current_turn_positions = Pop(@, index)]
                 cleared == clear_position(self.board, row, col)
             IN  IF cleared.exc # "none"
                 THEN Raise(cleared.exc, cleared.msg, [game |-> g2, board |-> self.board])
                 ELSE Raise("AttributeError", "'LetterBank' object has no attribute 'add_letter'",
                            [game |-> g2, board |-> cleared.self])
        ELSE Return(self, "None")

\* the result dictionary of a turn that is refused
Refused(reason) == [valid |-> FALSE, reason |-> reason]

\* end_turn counting a refused empty turn as a turn
end_turn_counting(self, accepted) ==
    IF self.game.current_turn_letters = <<>>
    THEN Return([self EXCEPT !.game.turn_number = @ + 1], Refused("No letters placed"))
    ELSE Return(self, Refused("No letters placed"))

\* Game.end_turn; accepted is the set of indices of the words of
\* get_all_words the validator answers True for.  A turn after the first
\* asks the board is_connected, which Board does not define; a turn with a
\* valid word and no invalid one calls calculate_word_score with the board
\* as a third argument, which Scoring's method does not take, so the
\* statements after it (score, played_words, first_play, turn_number) are
\* never run.
end_turn(self, accepted) ==
    LET g == self.game
        b == self.board
        positions == g.current_turn_positions
        center == <<b.rows \div 2, b.cols \div 2>>
        same_row == \A i \in DOMAIN positions : positions[i][1] = positions[1][1]
        same_col == \A i \in DOMAIN positions : positions[i][2] = positions[1][2]
        all == get_all_words(b)
        words == all.ret
        new == {i \in DOMAIN words : Range(words[i][2]) \cap Range(positions) # {}}
    IN  IF g.current_turn_letters = <<>> THEN Return(self, Refused("No letters placed"))
        ELSE IF g.first_play /\ center \notin Range(positions)
        THEN Return(self, Refused("First play must include the center position"))
        ELSE IF ~(same_row \/ same_col)
        THEN Return(self, Refused("All letters must be placed in the same row or column"))
        ELSE IF ~g.first_play
        THEN Raise("AttributeError", "'Board' object has no attribute 'is_connected'", self)
        ELSE IF all.exc # "none" THEN Raise(all.exc, all.msg, [game |-> g, board |-> all.self])
        ELSE IF new \ accepted # {}
        THEN Return([game |-> g, board |-> all.self], Refused("Invalid word(s)"))
        ELSE IF new = {}
        THEN Return([game |-> g, board |-> all.self], Refused("No valid words formed"))
        ELSE Raise("TypeError", "calculate_word_score() takes 3 positional arguments but 4 were given",
                   [game |-> g, board |-> all.self])

\* Game.cancel_turn: each tracked cell is read and cleared and its letter
\* handed to LetterBank.add_letter, which LetterBank does not define; with
\* nothing tracked the lists are emptied and True is returned
cancel_turn(self) ==
    LET g == self.game
    IN  IF g.current_turn_positions = <<>>
        THEN Return([self EXCEPT !.game.current_turn_letters = <<>>,
                                 !.game.current_turn_positions = <<>>], TRUE)
        ELSE LET p == g.current_turn_positions[1]
                 got == get_letter(self.board, p[1], p[2])
                 cleared == clear_position(self.board, p[1], p[2])
             IN  IF got.exc # "none" THEN Raise(got.exc, got.msg, self)
                 ELSE IF cleared.exc # "none" THEN Raise(cleared.exc, cleared.msg, self)
                 ELSE Raise("AttributeError", "'LetterBank' object has no attribute 'add_letter'",
                            [self EXCEPT !.board = cleared.self])

\* Game.reset: the first statement calls Board.reset, which Board does not
\* define, so no field is assigned
reset(self) ==
    Raise("AttributeError", "'Board' object has no attribute 'reset'", self)

(***************************************************************************)
(* State                                                                    *)
(***************************************************************************)
special_tiles == special_tiles_for(Rows, Cols)

BoardObj(b, occupied) ==
    [rows |-> Rows, cols |-> Cols, board |-> b,
     special_tiles |-> special_tiles,
     special_tiles_occupied |-> occupied]

Self == BoardObj(board, special_tiles_occupied)

\* the player's hand and the bank it refers to
Hand ==
    [letter_bank |-> letter_bank, letter_bank_total |-> letter_bank_total,
     max_size |-> MaxSize, hand |-> hand, hand_total |-> hand_total,
     letter_order |-> letter_order]

boardVars == <<board, special_tiles_occupied>>

bankVars == <<letter_bank, letter_bank_total>>

handVars == <<hand, hand_total, letter_order>>

appVars == <<selected_letter, score, scoring, placed_this_turn, game>>

SetBoard(self) ==
    /\ board' = self.board
    /\ special_tiles_occupied' = self.special_tiles_occupied

SetHand(self) ==
    /\ letter_bank' = self.letter_bank
    /\ letter_bank_total' = self.letter_bank_total
    /\ hand' = self.hand
    /\ hand_total' = self.hand_total
    /\ letter_order' = self.letter_order

\* a Python value shown as a string, for the record of the last call
Show(v) == IF v = TRUE THEN "True" ELSE "False"

\* the record of the last call: its name, its arguments (letter, word,
\* row, col, direction, flag, number), the exception it raised, what it
\* returned or reported, the words it was given or produced, the cells it
\* was given and the number it produced
NoCall ==
    [op |-> "init", letter |-> "", word |-> <<>>, row |-> 0, col |-> 0, dir |-> "",
     flag |-> FALSE, n |-> 0, exc |-> "none", msg |-> "", ret |-> "None",
     words |-> <<>>, positions |-> <<>>, result |-> 0]

Call(op, letter, row, col, flag, out, ret) ==
    [op |-> op, letter |-> letter, word |-> <<>>, row |-> row, col |-> col, dir |-> "",
     flag |-> flag, n |-> 0, exc |-> out.exc, msg |-> out.msg, ret |-> ret,
     words |-> <<>>, positions |-> <<>>, result |-> 0]

\* the cells of the board and one coordinate beyond each edge
Cells == {<<r, c>> : r \in 0..(Rows - 1), c \in 0..(Cols - 1)}

OutOfBounds == {<<-1, 0>>, <<0, -1>>, <<Rows, 0>>, <<0, Cols>>}

PosArgs == Cells \cup OutOfBounds

\* place_letter calls: a lowercase letter and the blank marker anywhere, a
\* digit and a two-character string on a cell and beyond the last row
PlaceArgs ==
    ({"a", "0"} \X PosArgs) \cup ({"1", "ab"} \X {<<0, 0>>, <<Rows, 0>>})

\* is_valid_placement calls: a letter anywhere, the blank marker on the centre
ValidPlacementArgs ==
    ({"a"} \X PosArgs) \cup {<<"0", <<Rows \div 2, Cols \div 2>> >>}

WordArgs == {<<"a", "b">>}

\* WordMosaicApp.__init__ up to create_player_hand: a new board, a new bank,
\* an empty hand, a new scorer, no score and no selection
InitObjects ==
    /\ board = NewBoard(Rows, Cols, special_tiles).board
    /\ special_tiles_occupied = NewBoard(Rows, Cols, special_tiles).special_tiles_occupied
    /\ letter_bank = NewLetterBank.letter_bank
    /\ letter_bank_total = NewLetterBank.letter_bank_total
    /\ hand = create_player_hand(NewLetterBank, MaxSize).hand
    /\ hand_total = create_player_hand(NewLetterBank, MaxSize).hand_total
    /\ letter_order = create_player_hand(NewLetterBank, MaxSize).letter_order
    /\ scoring = NewScoring(special_tiles, LETTER_VALUES)
    /\ score = 0
    /\ selected_letter = "None"
    /\ placed_this_turn = {}
    /\ game = Game
    /\ last = NoCall

InitBoard == InitObjects

PlaceLetter ==
    \E a \in PlaceArgs :
        LET letter == a[1]
            row == a[2][1]
            col == a[2][2]
            out == place_letter(Self, letter, row, col)
        IN  /\ TilesOnBoard(board) < MaxPlaced
            /\ SetBoard(out.self)
            /\ last' = Call("place_letter", letter, row, col, FALSE, out, "None")
            /\ UNCHANGED <<bankVars, handVars, appVars>>

ClearPosition ==
    \E p \in PosArgs :
        LET row == p[1]
            col == p[2]
            out == clear_position(Self, row, col)
        IN  /\ SetBoard(out.self)
            /\ last' = Call("clear_position", "", row, col, FALSE, out, "None")
            /\ UNCHANGED <<bankVars, handVars, appVars>>

ResetBoard ==
    LET out == reset_board(Self)
    IN  /\ SetBoard(out.self)
        /\ last' = Call("reset_board", "", 0, 0, FALSE, out, "None")
        /\ UNCHANGED <<bankVars, handVars, appVars>>

PlaceWord ==
    \E word \in WordArgs, p \in Cells \cup {<<-1, 0>>}, direction \in {"horizontal", "vertical"} :
        LET out == place_word(Self, word, p[1], p[2], direction)
        IN  /\ TilesOnBoard(board) < MaxPlaced
            /\ SetBoard(out.self)
            /\ last' = [Call("place_word", "", p[1], p[2], FALSE, out,
                              IF out.exc = "none" THEN Show(out.ret) ELSE "None")
                           EXCEPT !.word = word, !.dir = direction]
            /\ UNCHANGED <<bankVars, handVars, appVars>>

\* a query: the board is left as the call leaves it, the answer is recorded
IsValidPlacement ==
    \E a \in ValidPlacementArgs, first_play \in BOOLEAN :
        LET letter == a[1]
            p == a[2]
            out == is_valid_placement(Self, letter, p[1], p[2], first_play)
        IN  /\ SetBoard(out.self)
            /\ last' = Call("is_valid_placement", letter, p[1], p[2], first_play, out,
                            IF out.exc = "none" THEN Show(out.ret) ELSE "None")
            /\ UNCHANGED <<bankVars, handVars, appVars>>

NextBoard == PlaceLetter \/ PlaceWord \/ ClearPosition \/ ResetBoard

SpecBoard == InitBoard /\ [][NextBoard]_vars

\* letters are placed and placements are asked about; nothing is cleared
NextPlacement == PlaceLetter \/ IsValidPlacement

SpecPlacement == InitBoard /\ [][NextPlacement]_vars

\* the queries of the board: the board is left as the call leaves it and the
\* answer is recorded
GetAllWords ==
    LET out == get_all_words(Self)
    IN  /\ SetBoard(out.self)
        /\ last' = [Call("get_all_words", "", 0, 0, FALSE, out, "None")
                       EXCEPT !.words = IF out.exc = "none" THEN out.ret ELSE <<>>]
        /\ UNCHANGED <<bankVars, handVars, appVars>>

GetHorizontalWord ==
    \E p \in PosArgs :
        LET out == get_horizontal_word(Self, p[1], p[2])
        IN  /\ SetBoard(out.self)
            /\ last' = [Call("get_horizontal_word", "", p[1], p[2], FALSE, out, "None")
                           EXCEPT !.word = IF out.exc = "none" THEN out.ret ELSE <<>>]
            /\ UNCHANGED <<bankVars, handVars, appVars>>

GetVerticalWord ==
    \E p \in PosArgs :
        LET out == get_vertical_word(Self, p[1], p[2])
        IN  /\ SetBoard(out.self)
            /\ last' = [Call("get_vertical_word", "", p[1], p[2], FALSE, out, "None")
                           EXCEPT !.word = IF out.exc = "none" THEN out.ret ELSE <<>>]
            /\ UNCHANGED <<bankVars, handVars, appVars>>

\* get_letter returns an element of the board list: ret records whether it
\* is a string or a row list, word what it holds
GetLetter ==
    \E p \in PosArgs :
        LET out == get_letter(Self, p[1], p[2])
        IN  /\ SetBoard(out.self)
            /\ last' = [Call("get_letter", "", p[1], p[2], FALSE, out,
                              IF out.exc = "none" THEN out.ret.k ELSE "None")
                           EXCEPT !.word = IF out.exc = "none" THEN out.ret.v ELSE <<>>]
            /\ UNCHANGED <<bankVars, handVars, appVars>>

HasAdjacentLetter ==
    \E p \in PosArgs :
        LET out == has_adjacent_letter(Self, p[1], p[2])
        IN  /\ SetBoard(out.self)
            /\ last' = Call("has_adjacent_letter", "", p[1], p[2], FALSE, out,
                            IF out.exc = "none" THEN Show(out.ret) ELSE "None")
            /\ UNCHANGED <<bankVars, handVars, appVars>>

\* letters are placed and cleared, and the board is asked for its words, its
\* letters and its neighbourhoods
NextQuery ==
    \/ PlaceLetter \/ ClearPosition
    \/ GetAllWords \/ GetHorizontalWord \/ GetVerticalWord
    \/ GetLetter \/ HasAdjacentLetter

SpecQuery == InitBoard /\ [][NextQuery]_vars

\* the board after place_letter has put the letters on the cells, in order
PlaceAll(self, letters, cells) ==
    LET RECURSIVE Put(_, _)
        Put(i, cur) ==
            IF i > Len(letters) THEN cur
            ELSE Put(i + 1, place_letter(cur, letters[i], cells[i][1], cells[i][2]).self)
    IN  Put(1, self)

\* the boards place_letter makes of a new board with at most MaxPlaced calls
ScanLetters == {"a", "b"}

PlacedBoards ==
    {PlaceAll(NewBoard(Rows, Cols, special_tiles),
              [i \in DOMAIN f |-> f[i][1]], [i \in DOMAIN f |-> f[i][2]]) :
        f \in UNION {[1..n -> ScanLetters \X Cells] : n \in 0..MaxPlaced}}

\* the window's objects with some letters already placed on the board
InitScan ==
    /\ \E b \in PlacedBoards :
            /\ board = b.board
            /\ special_tiles_occupied = b.special_tiles_occupied
    /\ letter_bank = NewLetterBank.letter_bank
    /\ letter_bank_total = NewLetterBank.letter_bank_total
    /\ hand = create_player_hand(NewLetterBank, MaxSize).hand
    /\ hand_total = create_player_hand(NewLetterBank, MaxSize).hand_total
    /\ letter_order = create_player_hand(NewLetterBank, MaxSize).letter_order
    /\ scoring = NewScoring(special_tiles, LETTER_VALUES)
    /\ score = 0
    /\ selected_letter = "None"
    /\ placed_this_turn = {}
    /\ game = Game
    /\ last = NoCall

\* the board is reset and asked for its words
NextScan == ResetBoard \/ GetAllWords

SpecScan == InitScan /\ [][NextScan]_vars

\* the boards place_letter makes by putting a letter on each cell of a set
FilledBoards ==
    {PlaceAll(NewBoard(Rows, Cols, special_tiles),
              [i \in 1..Cardinality(cells) |-> "a"],
              SelectSeq(RowMajor(Rows, Cols), LAMBDA p : p \in cells)) :
        cells \in SUBSET Cells}

\* the window's objects with some cells of the board filled
InitCoverage ==
    /\ \E b \in FilledBoards :
            /\ board = b.board
            /\ special_tiles_occupied = b.special_tiles_occupied
    /\ letter_bank = NewLetterBank.letter_bank
    /\ letter_bank_total = NewLetterBank.letter_bank_total
    /\ hand = create_player_hand(NewLetterBank, MaxSize).hand
    /\ hand_total = create_player_hand(NewLetterBank, MaxSize).hand_total
    /\ letter_order = create_player_hand(NewLetterBank, MaxSize).letter_order
    /\ scoring = NewScoring(special_tiles, LETTER_VALUES)
    /\ score = 0
    /\ selected_letter = "None"
    /\ placed_this_turn = {}
    /\ game = Game
    /\ last = NoCall

\* the coverage bonus is computed of what Board.calculate_coverage returns;
\* positions holds the percentage as <<numerator, denominator>>
CalculateCoverageBonus ==
    LET out == calculate_coverage(Self)
    IN  /\ last.op # "calculate_coverage_bonus"
        /\ last' = [Call("calculate_coverage_bonus", "", 0, 0, FALSE, out, "None")
                       EXCEPT !.positions = IF out.exc = "none" THEN out.ret ELSE <<>>,
                              !.result = IF out.exc = "none"
                                         THEN calculate_coverage_bonus(out.ret) ELSE 0]
        /\ UNCHANGED <<boardVars, bankVars, handVars, appVars>>

NextCoverage == ResetBoard \/ CalculateCoverageBonus

SpecCoverage == InitCoverage /\ [][NextCoverage]_vars

(***************************************************************************)
(* The letter bank and the hand on their own                                *)
(***************************************************************************)
\* the tiles of a full bank
FullBank == SumValues(LETTER_FREQUENCIES)

\* the bank is explored within MaxOut tiles of full while the hand is empty,
\* and when nearly empty
Drawable ==
    \/ FullBank - letter_bank_total < MaxOut /\ hand_total = 0
    \/ letter_bank_total <= MaxLeft

DrawTiles ==
    \E num_tiles \in 0..MaxDraw :
        \E out \in draw_tiles(Hand, num_tiles) :
            /\ Drawable
            /\ SetHand(out.self)
            /\ last' = [Call("draw_tiles", "", 0, 0, FALSE, out, "None")
                           EXCEPT !.n = num_tiles,
                                  !.word = IF out.exc = "none" THEN out.ret ELSE <<>>]
            /\ UNCHANGED <<boardVars, appVars>>

\* a tile that left the bank is returned, or a letter no tile bears
ReturnTiles ==
    \E letter \in {"0", "q", "A"} :
        LET out == return_tiles(Hand, letter, 1)
        IN  /\ letter \in DOMAIN LETTER_FREQUENCIES =>
                   DictGet(letter_bank, letter, 0) < LETTER_FREQUENCIES[letter]
            /\ SetHand(out.self)
            /\ last' = [Call("return_tiles", letter, 0, 0, FALSE, out, "None") EXCEPT !.n = 1]
            /\ UNCHANGED <<boardVars, appVars>>

UseLetters ==
    \E word \in {<<"Q">>, <<"j", "0">>} :
        LET out == use_letters(Hand, word)
        IN  /\ Drawable
            /\ SetHand(out.self)
            /\ last' = [Call("use_letters", "", 0, 0, FALSE, out, Show(out.ret))
                           EXCEPT !.word = word]
            /\ UNCHANGED <<boardVars, appVars>>

InitLetterBank ==
    LET out == init_letter_bank(Hand)
    IN  /\ SetHand(out.self)
        /\ last' = Call("init_letter_bank", "", 0, 0, FALSE, out, "None")
        /\ UNCHANGED <<boardVars, appVars>>

NextBank == DrawTiles \/ ReturnTiles \/ UseLetters \/ InitLetterBank

SpecBank == InitObjects /\ [][NextBank]_vars

\* LetterBank.refill_hand is called for an empty hand
RefillHand ==
    \E num_tiles \in 0..MaxDraw :
        \E out \in refill_hand(Hand, num_tiles) :
            /\ Drawable
            /\ hand_total = 0
            /\ SetHand(out.self)
            /\ last' = [Call("refill_hand", "", 0, 0, FALSE, out, Show(out.ret))
                           EXCEPT !.n = num_tiles]
            /\ UNCHANGED <<boardVars, appVars>>

\* the banks draw_tiles leaves when it has drawn all tiles but at most
\* MaxLeft, which are of the letters random.choice is taken to return
LowBanks ==
    {[letter_bank |-> [l \in DOMAIN LETTER_FREQUENCIES |->
                          IF l \in RandomPool THEN left[l] ELSE 0],
      letter_bank_total |-> SumValues(left)] :
        left \in {f \in [RandomPool -> 0..MaxLeft] : SumValues(f) <= MaxLeft}}

\* the objects as constructed, after the bank was drawn down
InitLowBank ==
    /\ board = NewBoard(Rows, Cols, special_tiles).board
    /\ special_tiles_occupied = NewBoard(Rows, Cols, special_tiles).special_tiles_occupied
    /\ \E bank \in LowBanks :
            /\ letter_bank = bank.letter_bank
            /\ letter_bank_total = bank.letter_bank_total
    /\ hand = create_player_hand(NewLetterBank, MaxSize).hand
    /\ hand_total = create_player_hand(NewLetterBank, MaxSize).hand_total
    /\ letter_order = create_player_hand(NewLetterBank, MaxSize).letter_order
    /\ scoring = NewScoring(special_tiles, LETTER_VALUES)
    /\ score = 0
    /\ selected_letter = "None"
    /\ placed_this_turn = {}
    /\ game = Game
    /\ last = NoCall

NextLowBank == DrawTiles \/ RefillHand \/ ReturnTiles \/ UseLetters \/ InitLetterBank

SpecLowBank == InitLowBank /\ [][NextLowBank]_vars

(***************************************************************************)
(* WordMosaicApp: the handlers of the window                                *)
(***************************************************************************)
\* what the player may answer to QInputDialog.getText: <<ok, text>>
PromptInputs == {<<TRUE, "B">>, <<TRUE, "1">>, <<FALSE, "">>}

\* the cells the player clicks and drops on
ClickCells == {p \in Cells : p[1] < MaxClick /\ p[2] < MaxClick}

\* the answer is accepted
Accepted(input) == input[1] /\ isalpha(input[2]) /\ Len(input[2]) = 1

\* WordMosaicApp.__init__: the hand is filled from the bank
InitApp ==
    \E out \in fill_initial_hand(create_player_hand(NewLetterBank, MaxSize)) :
        /\ board = NewBoard(Rows, Cols, special_tiles).board
        /\ special_tiles_occupied = NewBoard(Rows, Cols, special_tiles).special_tiles_occupied
        /\ letter_bank = out.self.letter_bank
        /\ letter_bank_total = out.self.letter_bank_total
        /\ hand = out.self.hand
        /\ hand_total = out.self.hand_total
        /\ letter_order = out.self.letter_order
        /\ scoring = NewScoring(special_tiles, LETTER_VALUES)
        /\ score = 0
        /\ selected_letter = "None"
        /\ placed_this_turn = {}
        /\ game = Game
        /\ last = NoCall

\* WordMosaicApp.select_letter, called with a tile of the hand
SelectLetter ==
    \E index \in DOMAIN letter_order, input \in PromptInputs :
        LET letter == letter_order[index]
        IN  /\ letter = "0" \/ input = <<FALSE, "">>
            /\ selected_letter' =
                   IF letter = "0"
                   THEN IF Accepted(input) THEN lower(input[2]) ELSE selected_letter
                   ELSE letter
            /\ last' = [Call("select_letter", letter, 0, 0, FALSE, Return(Self, "None"),
                              IF letter = "0" /\ ~Accepted(input) THEN "Invalid input"
                              ELSE "Selected letter")
                           EXCEPT !.n = index]
            /\ UNCHANGED <<boardVars, bankVars, handVars, score, scoring, placed_this_turn, game>>

\* WordMosaicApp.place_letter, called with the cell that was clicked.
\* ValueError is caught by the handler; what was assigned before it stays.
GuiPlaceLetter ==
    \E p \in ClickCells :
        LET row == p[1]
            col == p[2]
            placed == place_letter(Self, selected_letter, row, col)
            marked == IF <<row, col>> \in DOMAIN placed.self.special_tiles
                      THEN [placed.self EXCEPT !.special_tiles_occupied[<<row, col>>] = TRUE]
                      ELSE placed.self
            removed == remove_letter(Hand, selected_letter)
        IN  /\ TilesOnBoard(board) < MaxTiles
            /\ IF selected_letter = "None"
               THEN /\ last' = Call("gui.place_letter", "", row, col, FALSE,
                                    Return(Self, "None"), "Please select a letter first")
                    /\ UNCHANGED <<boardVars, bankVars, handVars, appVars>>
               ELSE IF placed.exc # "none"
               THEN /\ last' = Call("gui.place_letter", selected_letter, row, col, FALSE,
                                    placed,
                                    IF placed.exc = "ValueError" THEN "Invalid placement"
                                    ELSE "None")
                    /\ UNCHANGED <<boardVars, bankVars, handVars, appVars>>
               ELSE /\ SetBoard(marked)
                    /\ SetHand(removed.self)
                    /\ selected_letter' = IF removed.exc = "none" THEN "None"
                                          ELSE selected_letter
                    /\ placed_this_turn' = placed_this_turn \cup {<<row, col>>}
                    /\ last' = [Call("gui.place_letter", selected_letter, row, col, FALSE,
                                     removed,
                                     IF removed.exc = "none" THEN "Placed letter"
                                     ELSE "Invalid placement")
                                   EXCEPT !.flag = (removed.exc = "none" /\ removed.ret)]
                    /\ UNCHANGED <<score, scoring, game>>

\* WordMosaicApp.place_tile_from_drop, called with a tile of the hand and the
\* cell it was dropped on
PlaceTileFromDrop ==
    \E index \in DOMAIN letter_order, p \in ClickCells, input \in PromptInputs :
        LET original_letter == letter_order[index]
            row == p[1]
            col == p[2]
            occ == is_occupied(Self, row, col)
            letter == IF original_letter = "0" THEN lower(input[2]) ELSE original_letter
            placed == place_letter(Self, letter, row, col)
            marked == IF <<row, col>> \in DOMAIN placed.self.special_tiles
                      THEN [placed.self EXCEPT !.special_tiles_occupied[<<row, col>>] = TRUE]
                      ELSE placed.self
            removed == remove_letter(Hand, original_letter)
            Report(out, ret) ==
                [Call("place_tile_from_drop", original_letter, row, col, FALSE, out, ret)
                    EXCEPT !.n = index]
        IN  /\ TilesOnBoard(board) < MaxTiles
            /\ original_letter = "0" \/ input = <<FALSE, "">>
            /\ IF ~is_valid_position(Self, row, col)
               THEN /\ last' = Report(Raise("ValueError", "InvalidPosition", Self),
                                      "Invalid placement")
                    /\ UNCHANGED <<boardVars, bankVars, handVars, appVars>>
               ELSE IF occ.exc # "none" \/ occ.ret
               THEN /\ last' = Report(IF occ.exc # "none" THEN occ
                                      ELSE Raise("ValueError", "OccupiedPosition", Self),
                                      IF occ.exc \in {"none", "ValueError"}
                                      THEN "Invalid placement" ELSE "None")
                    /\ UNCHANGED <<boardVars, bankVars, handVars, appVars>>
               ELSE IF original_letter = "0" /\ ~Accepted(input)
               THEN /\ last' = Report(Return(Self, "None"), "Invalid input")
                    /\ UNCHANGED <<boardVars, bankVars, handVars, appVars>>
               ELSE IF placed.exc # "none"
               THEN /\ last' = Report(placed,
                                      IF placed.exc = "ValueError" THEN "Invalid placement"
                                      ELSE "None")
                    /\ UNCHANGED <<boardVars, bankVars, handVars, appVars>>
               ELSE /\ SetBoard(marked)
                    /\ SetHand(removed.self)
                    /\ placed_this_turn' = placed_this_turn \cup {<<row, col>>}
                    /\ last' = [Report(removed,
                                       IF removed.exc = "none" THEN "Placed letter"
                                       ELSE "Invalid placement")
                                   EXCEPT !.flag = (removed.exc = "none" /\ removed.ret)]
                    /\ UNCHANGED <<selected_letter, score, scoring, game>>

\* WordMosaicApp.refresh_board, over the cells of the board: get_letter
\* returns the element at the flat index, and a row list has no upper()
refresh_board(self) ==
    LET order == RowMajor(self.rows, self.cols)
        RECURSIVE Scan(_)
        Scan(i) ==
            IF i > Len(order) THEN Return(self, "None")
            ELSE LET g == get_letter(self, order[i][1], order[i][2])
                 IN  IF g.exc # "none" THEN Raise(g.exc, g.msg, self)
                     ELSE IF g.ret.k = "list" /\ g.ret.v # <<>>
                     THEN Raise("AttributeError", "upper", self)
                     ELSE Scan(i + 1)
    IN  Scan(1)

\* WordMosaicApp.submit_word.  Every exception is caught by the handler and
\* reported; what was assigned before it stays.  Fetching the definitions
\* changes nothing that is modelled.  flag records that the score was
\* updated.
SubmitWord ==
    LET found == get_all_words(Self)
        words_formed == found.ret
        misplaced == {i \in DOMAIN words_formed :
                         ~validate_word_positions(words_formed[i][1], words_formed[i][2])}
        scored == calculate_turn_score(scoring, words_formed, <<>>)
        turn_score == scored.ret
        Report(exc, ret, result, n) ==
            [NoCall EXCEPT !.op = "submit_word", !.exc = exc, !.ret = ret,
                           !.words = IF found.exc = "none" THEN words_formed ELSE <<>>,
                           !.result = result, !.n = n]
    IN  /\ scoring.turns_played < MaxTurns
        /\ IF found.exc # "none"
           THEN /\ last' = Report(found.exc, "Error submitting word", 0, 0)
                /\ UNCHANGED <<boardVars, bankVars, handVars, appVars>>
           ELSE IF misplaced # {}
           THEN /\ last' = [Report("none", "Invalid word placement", 0, 0) EXCEPT
                               !.word = words_formed[CHOOSE i \in misplaced :
                                                        \A j \in misplaced : i <= j][1]]
                /\ UNCHANGED <<boardVars, bankVars, handVars, appVars>>
           ELSE \E filled \in refill(Hand, Len(words_formed)) :
                /\ score' = score + turn_score
                /\ scoring' = scored.self
                /\ SetHand(filled.self)
                /\ placed_this_turn' = {}
                /\ last' = [(IF filled.exc # "none"
                             THEN Report(filled.exc, "Error submitting word", turn_score, 0)
                             ELSE IF refresh_board(Self).exc # "none"
                             THEN Report(refresh_board(Self).exc, "Error submitting word",
                                         turn_score, filled.ret)
                             ELSE Report("none", "Turn completed", turn_score, filled.ret))
                               EXCEPT !.flag = TRUE]
                /\ UNCHANGED <<boardVars, selected_letter, game>>

\* WordMosaicApp.shuffle_letters
ShuffleLetters ==
    \E out \in shuffle_letters(Hand) :
        /\ SetHand(out.self)
        /\ last' = Call("shuffle_letters", "", 0, 0, FALSE, out, "Letters shuffled")
        /\ UNCHANGED <<boardVars, appVars>>

NextApp == SelectLetter \/ GuiPlaceLetter \/ PlaceTileFromDrop \/ SubmitWord \/ ShuffleLetters

SpecApp == InitApp /\ [][NextApp]_vars

(***************************************************************************)
(* The tiles: the hand's own operations next to the window's placements     *)
(***************************************************************************)
\* the letters a caller names: one drawn from the pool, and one no tile bears
LetterArgs == RandomPool \cup {"A"}

Refill ==
    \E out \in refill_to_max(Hand) :
        /\ SetHand(out.self)
        /\ last' = [Call("refill", "", 0, 0, FALSE, out, "None")
                       EXCEPT !.result = IF out.exc = "none" THEN out.ret ELSE 0]
        /\ UNCHANGED <<boardVars, appVars>>

ReturnToBank ==
    \E letter \in LetterArgs :
        LET out == return_to_bank(Hand, letter)
        IN  /\ SetHand(out.self)
            /\ last' = Call("return_to_bank", letter, 0, 0, FALSE, out,
                            IF out.exc = "none" THEN Show(out.ret) ELSE "None")
            /\ UNCHANGED <<boardVars, appVars>>

ReturnAllToBank ==
    LET out == return_all_to_bank(Hand)
    IN  /\ SetHand(out.self)
        /\ last' = [Call("return_all_to_bank", "", 0, 0, FALSE, out, "None")
                       EXCEPT !.result = IF out.exc = "none" THEN out.ret ELSE 0]
        /\ UNCHANGED <<boardVars, appVars>>

ExchangeLetters ==
    \E letter \in LetterArgs :
        \E out \in exchange_letters(Hand, <<letter>>) :
            /\ SetHand(out.self)
            /\ last' = [Call("exchange_letters", letter, 0, 0, FALSE, out, "None")
                           EXCEPT !.word = IF out.exc = "none" THEN out.ret ELSE <<>>]
            /\ UNCHANGED <<boardVars, appVars>>

NextTiles ==
    \/ Refill \/ ReturnToBank \/ ReturnAllToBank \/ ExchangeLetters
    \/ SelectLetter \/ GuiPlaceLetter \/ PlaceTileFromDrop

SpecTiles == InitApp /\ [][NextTiles]_vars

\* PlayerHand.add_letter, remove_letter and can_form_word called on the hand
\* the window filled
AddLetter ==
    \E letter \in LetterArgs :
        LET out == add_letter(Hand, letter)
        IN  /\ SetHand(out.self)
            /\ last' = Call("add_letter", letter, 0, 0, out.ret, out, Show(out.ret))
            /\ UNCHANGED <<boardVars, appVars>>

RemoveLetter ==
    \E letter \in LetterArgs :
        LET out == remove_letter(Hand, letter)
        IN  /\ SetHand(out.self)
            /\ last' = Call("remove_letter", letter, 0, 0,
                            out.exc = "none" /\ out.ret, out,
                            IF out.exc = "none" THEN Show(out.ret) ELSE "None")
            /\ UNCHANGED <<boardVars, appVars>>

\* the words asked of the hand, of a letter the pool draws, a letter it does
\* not and the blank marker
HandWords == {<<"e">>, <<"b">>, <<"0">>, <<"e", "e">>, <<"e", "b">>, <<"b", "e", "e">>}

CanFormWord ==
    \E word \in HandWords :
        /\ last' = [Call("can_form_word", "", 0, 0, can_form_word(Hand, word),
                          Return(Hand, "None"), Show(can_form_word(Hand, word)))
                       EXCEPT !.word = word]
        /\ UNCHANGED <<boardVars, bankVars, handVars, appVars>>

\* PlayerHand.shuffle_letters, with what it returns
ShuffleHand ==
    \E out \in shuffle_letters(Hand) :
        /\ SetHand(out.self)
        /\ last' = Call("shuffle_letters", "", 0, 0, out.ret, out, Show(out.ret))
        /\ UNCHANGED <<boardVars, appVars>>

NextHand == AddLetter \/ RemoveLetter \/ CanFormWord \/ ShuffleHand

SpecHand == InitApp /\ [][NextHand]_vars

\* the tiles of the bank and the hand together
TilesInPlay == letter_bank_total + hand_total

\* the lists of letters given to exchange_letters: none, one or two letters
\* among those a caller names
ExchangeLists ==
    {<<>>} \cup {<<l>> : l \in LetterArgs} \cup {<<l, m>> : l \in LetterArgs, m \in LetterArgs}

\* PlayerHand.exchange_letters is called with a list of letters; last.words
\* holds the list given and last.word the list returned
ExchangeList ==
    \E letters \in ExchangeLists :
        \E out \in exchange_letters(Hand, letters) :
            /\ SetHand(out.self)
            /\ last' = [Call("exchange_letters", "", 0, 0, FALSE, out, "None")
                           EXCEPT !.words = letters,
                                  !.word = IF out.exc = "none" THEN out.ret ELSE <<>>]
            /\ UNCHANGED <<boardVars, appVars>>

NextExchange == ExchangeList \/ ReturnToBank \/ Refill

SpecExchange == InitApp /\ [][NextExchange]_vars

\* bank and hand together hold the tiles of a new bank, letter by letter
Pristine ==
    \A l \in DOMAIN LETTER_FREQUENCIES :
        letter_bank[l] + DictGet(hand, l, 0) = LETTER_FREQUENCIES[l]

\* every operation that changes the hand, on the hand the window filled.
\* remove_letter takes a tile out of play and add_letter brings one in: a
\* tile is removed while bank and hand hold the tiles of a new bank, and
\* one is added while a tile is missing.
ViewsAddLetter == TilesInPlay < FullBank /\ AddLetter

ViewsRemoveLetter == Pristine /\ RemoveLetter

NextViews ==
    \/ Refill \/ RefillHand \/ ViewsAddLetter \/ ViewsRemoveLetter
    \/ ReturnToBank \/ ReturnAllToBank \/ ExchangeLetters \/ ShuffleHand

SpecViews == InitApp /\ [][NextViews]_vars

(***************************************************************************)
(* Scoring on its own: the scorer the window builds for the 15x15 layout    *)
(***************************************************************************)
\* the letters the scored words are cut from: both cases and the blank marker
ScoreLetters == <<"Q", "u", "0", "z", "e", "D", "a", "x", "j", "k">>

ScoreWords == {SubSeq(ScoreLetters, 1, n) : n \in 1..MaxWordLen}

ScoreStarts == (0..MaxStart) \X (0..MaxStart)

\* the cells of a word laid from a start cell in a direction
Span(word, row, col, direction) ==
    [i \in 1..Len(word) |-> WordCell(row, col, direction, i - 1)]

InitScore ==
    /\ board = NewBoard(Rows, Cols, special_tiles).board
    /\ special_tiles_occupied = NewBoard(Rows, Cols, special_tiles).special_tiles_occupied
    /\ letter_bank = NewLetterBank.letter_bank
    /\ letter_bank_total = NewLetterBank.letter_bank_total
    /\ hand = create_player_hand(NewLetterBank, MaxSize).hand
    /\ hand_total = create_player_hand(NewLetterBank, MaxSize).hand_total
    /\ letter_order = create_player_hand(NewLetterBank, MaxSize).letter_order
    /\ scoring = NewScoring(SPECIAL_TILES, LETTER_VALUES)
    /\ score = 0
    /\ selected_letter = "None"
    /\ placed_this_turn = {}
    /\ game = Game
    /\ \E word \in ScoreWords, start \in ScoreStarts, direction \in {"horizontal", "vertical"} :
            last = [NoCall EXCEPT !.word = word, !.row = start[1], !.col = start[2],
                                  !.dir = direction]

\* Scoring.calculate_word_score is called with the word and the cells drawn;
\* it assigns to no field
CalculateWordScore ==
    LET word == last.word
        positions == Span(word, last.row, last.col, last.dir)
        ret == calculate_word_score(scoring, word, positions)
    IN  /\ last.op = "init"
        /\ last' = [Call("calculate_word_score", "", last.row, last.col, FALSE,
                          Return(scoring, ret), "None")
                       EXCEPT !.word = word, !.dir = last.dir, !.result = ret]
        /\ UNCHANGED <<boardVars, bankVars, handVars, appVars>>

NextWordScore == CalculateWordScore

SpecWordScore == InitScore /\ [][NextWordScore]_vars

\* the lists of one to Rows cells of the board, in any order and with
\* repeats, that a word may be given as its positions
PositionLists == UNION {[1..n -> Cells] : n \in 1..Rows}

\* the objects as constructed, with the positions of a word drawn
InitPositions ==
    /\ board = NewBoard(Rows, Cols, special_tiles).board
    /\ special_tiles_occupied = NewBoard(Rows, Cols, special_tiles).special_tiles_occupied
    /\ letter_bank = NewLetterBank.letter_bank
    /\ letter_bank_total = NewLetterBank.letter_bank_total
    /\ hand = create_player_hand(NewLetterBank, MaxSize).hand
    /\ hand_total = create_player_hand(NewLetterBank, MaxSize).hand_total
    /\ letter_order = create_player_hand(NewLetterBank, MaxSize).letter_order
    /\ scoring = NewScoring(special_tiles, LETTER_VALUES)
    /\ score = 0
    /\ selected_letter = "None"
    /\ placed_this_turn = {}
    /\ game = Game
    /\ \E positions \in PositionLists :
            last = [NoCall EXCEPT !.word = [i \in DOMAIN positions |-> "A"],
                                  !.positions = positions]

\* Scoring.validate_word_positions is called with the word and positions
\* drawn; it assigns to no field
ValidateWordPositions ==
    /\ last.op = "init"
    /\ last' = [Call("validate_word_positions", "", 0, 0,
                      validate_word_positions(last.word, last.positions),
                      Return(scoring, "None"), "None")
                   EXCEPT !.word = last.word, !.positions = last.positions]
    /\ UNCHANGED <<boardVars, bankVars, handVars, appVars>>

NextPositions == ValidateWordPositions

SpecPositions == InitPositions /\ [][NextPositions]_vars

\* the words a turn is scored for, each with its cells on the 15x15 layout:
\* APPLE along row 7 from the centre, DRAMA down column 7 to the centre, AT
\* along row 0 and AS down column 0 from the corner
\* (and, in TurnWords, LETTER along row 5, PLAYERS along row 7 through the
\* centre and LETTERED down column 7: words of six, seven and eight letters)
APPLE == << <<"A", "P", "P", "L", "E">>, Span(<<"A", "P", "P", "L", "E">>, 7, 7, "horizontal") >>

DRAMA == << <<"D", "R", "A", "M", "A">>, Span(<<"D", "R", "A", "M", "A">>, 3, 7, "vertical") >>

AT == << <<"A", "T">>, Span(<<"A", "T">>, 0, 0, "horizontal") >>

AS == << <<"A", "S">>, Span(<<"A", "S">>, 0, 0, "vertical") >>

TurnWords ==
    { <<APPLE>>, <<DRAMA>>, <<APPLE, DRAMA>>, <<AT>>, <<AS>>, <<AT, AS>>, <<AT, APPLE>>,
      << << <<"L", "E", "T", "T", "E", "R">>,
            Span(<<"L", "E", "T", "T", "E", "R">>, 5, 0, "horizontal") >> >>,
      << << <<"P", "L", "A", "Y", "E", "R", "S">>,
            Span(<<"P", "L", "A", "Y", "E", "R", "S">>, 7, 5, "horizontal") >> >>,
      << << <<"L", "E", "T", "T", "E", "R", "E", "D">>,
            Span(<<"L", "E", "T", "T", "E", "R", "E", "D">>, 0, 7, "vertical") >> >> }

\* the cells of a list of words
CellsOf(words) == UNION {Range(words[i][2]) : i \in DOMAIN words}

\* a set of cells as the list a caller builds by scanning the board
AsList(cells) == SelectSeq(RowMajor(15, 15), LAMBDA p : p \in cells)

\* the cells the previous call was told of or scored words on
Covered == Range(last.positions) \cup CellsOf(last.words)

\* Scoring.calculate_turn_score is called for a turn's words with no
\* board_positions (as Board.calculate_turn_score calls it), with the cells
\* covered before the turn, or with those and the cells of the turn's words
CalculateTurnScore ==
    \E words \in TurnWords :
        \E board_positions \in {<<>>, AsList(Covered), AsList(Covered \cup CellsOf(words))} :
            LET out == calculate_turn_score(scoring, words, board_positions)
            IN  /\ scoring.turns_played < MaxTurns
                /\ scoring' = out.self
                /\ last' = [Call("calculate_turn_score", "", 0, 0, FALSE, out, "None")
                               EXCEPT !.words = words, !.positions = board_positions,
                                      !.result = out.ret]
                /\ UNCHANGED <<boardVars, bankVars, handVars,
                               selected_letter, score, placed_this_turn, game>>

\* Scoring.calculate_complexity_bonus is called with the scorer's histogram,
\* as calculate_end_game_bonus calls it; the record of the last turn stays
CalculateComplexityBonus ==
    /\ last.op # "calculate_complexity_bonus"
    /\ last' = [last EXCEPT !.op = "calculate_complexity_bonus",
                            !.result = calculate_complexity_bonus(scoring.words_by_length)]
    /\ UNCHANGED <<boardVars, bankVars, handVars, appVars>>

NextTurnScore == CalculateTurnScore \/ CalculateComplexityBonus

\* the objects as constructed, with the scorer of the 15x15 layout
InitTurnScore ==
    /\ board = NewBoard(Rows, Cols, special_tiles).board
    /\ special_tiles_occupied = NewBoard(Rows, Cols, special_tiles).special_tiles_occupied
    /\ letter_bank = NewLetterBank.letter_bank
    /\ letter_bank_total = NewLetterBank.letter_bank_total
    /\ hand = create_player_hand(NewLetterBank, MaxSize).hand
    /\ hand_total = create_player_hand(NewLetterBank, MaxSize).hand_total
    /\ letter_order = create_player_hand(NewLetterBank, MaxSize).letter_order
    /\ scoring = NewScoring(SPECIAL_TILES, LETTER_VALUES)
    /\ score = 0
    /\ selected_letter = "None"
    /\ placed_this_turn = {}
    /\ game = Game
    /\ last = NoCall

SpecTurnScore == InitTurnScore /\ [][NextTurnScore]_vars

\* Game.new_game of main.py: the board is reset, the bank replaced by a new
\* one, score and played_words emptied; self.scoring is not assigned
NewGame ==
    /\ SetBoard(reset_board(Self).self)
    /\ letter_bank' = NewLetterBank.letter_bank
    /\ letter_bank_total' = NewLetterBank.letter_bank_total
    /\ score' = 0
    /\ last' = [NoCall EXCEPT !.op = "new_game"]
    /\ UNCHANGED <<handVars, scoring, selected_letter, placed_this_turn, game>>

\* Scoring.reset_score is called
ResetScore ==
    /\ scoring' = reset_score(scoring).self
    /\ last' = [NoCall EXCEPT !.op = "reset_score"]
    /\ UNCHANGED <<boardVars, bankVars, handVars, score, selected_letter, placed_this_turn, game>>

NextGame == CalculateTurnScore \/ NewGame \/ ResetScore

SpecGame == InitTurnScore /\ [][NextGame]_vars

(***************************************************************************)
(* The game of game.py on the board it was built with                       *)
(***************************************************************************)
\* the game's fields with its board
GameSelf == [game |-> game, board |-> Self]

SetGame(self) ==
    /\ game' = self.game
    /\ SetBoard(self.board)

\* the letters given to Game.place_letter
GameLetters == {"a", "b", "e", "q", "z", "0", "A", "1"}

GamePlaceLetter ==
    \E letter \in GameLetters, p \in PosArgs :
        LET out == Game_place_letter(GameSelf, letter, p[1], p[2])
        IN  /\ SetGame(out.self)
            /\ last' = Call("Game.place_letter", letter, p[1], p[2], FALSE, out, "None")
            /\ UNCHANGED <<bankVars, handVars, selected_letter, score, scoring, placed_this_turn>>

GameRemoveLetter ==
    \E p \in PosArgs :
        LET out == Game_remove_letter(GameSelf, p[1], p[2])
        IN  /\ SetGame(out.self)
            /\ last' = Call("Game.remove_letter", "", p[1], p[2], FALSE, out, "None")
            /\ UNCHANGED <<bankVars, handVars, selected_letter, score, scoring, placed_this_turn>>

\* the validator accepts any of the words on the board
EndTurn ==
    \E accepted \in SUBSET (1..MaxPlaced) :
        LET out == end_turn(GameSelf, accepted)
        IN  /\ SetGame(out.self)
            /\ last' = [Call("end_turn", "", 0, 0,
                              out.exc = "none" /\ out.ret.valid, out, "None")
                           EXCEPT !.dir = IF out.exc = "none" /\ ~out.ret.valid
                                          THEN out.ret.reason ELSE ""]
            /\ UNCHANGED <<bankVars, handVars, selected_letter, score, scoring, placed_this_turn>>

CancelTurn ==
    LET out == cancel_turn(GameSelf)
    IN  /\ SetGame(out.self)
        /\ last' = Call("cancel_turn", "", 0, 0, out.exc = "none" /\ out.ret, out, "None")
        /\ UNCHANGED <<bankVars, handVars, selected_letter, score, scoring, placed_this_turn>>

GameReset ==
    LET out == reset(GameSelf)
    IN  /\ SetGame(out.self)
        /\ last' = Call("reset", "", 0, 0, FALSE, out, "None")
        /\ UNCHANGED <<bankVars, handVars, selected_letter, score, scoring, placed_this_turn>>

NextTurns == GamePlaceLetter \/ GameRemoveLetter \/ EndTurn \/ CancelTurn \/ GameReset

SpecTurns == InitObjects /\ [][NextTurns]_vars

(***************************************************************************)
(* Snapshots: to_json and from_json of the board, the bank and the hand     *)
(***************************************************************************)
\* Board.to_json
to_json(self) ==
    [rows |-> self.rows, cols |-> self.cols, board |-> self.board,
     special_tiles_occupied |-> self.special_tiles_occupied]

\* Board.from_json: cls(data["rows"], data["cols"]) calls a constructor that
\* takes rows, cols and special_tiles, so the call raises before any field
\* of data is copied
from_json(data) ==
    Raise("TypeError", "missing 1 required positional argument: 'special_tiles'", "None")

\* LetterBank.to_json
LetterBank_to_json(self) ==
    [letter_bank |-> self.letter_bank, letter_bank_total |-> self.letter_bank_total]

\* LetterBank.from_json: a new bank whose counts and total are those of data
LetterBank_from_json(data) ==
    Return([NewLetterBank EXCEPT !.letter_bank = data.letter_bank,
                                 !.letter_bank_total = data.letter_bank_total], "None")

\* PlayerHand.to_json
PlayerHand_to_json(self) ==
    [hand |-> self.hand, hand_total |-> self.hand_total,
     letter_order |-> self.letter_order, max_size |-> self.max_size]

\* PlayerHand.from_json: a new hand on the given bank, of data's max_size,
\* whose counts, total and order are those of data
PlayerHand_from_json(data, bank) ==
    Return([create_player_hand(bank, data.max_size)
                EXCEPT !.hand = data.hand, !.hand_total = data.hand_total,
                       !.letter_order = data.letter_order], "None")

\* the board is saved and restored: the restored board replaces the board
\* when from_json returns one
BoardFromJson ==
    LET out == from_json(to_json(Self))
    IN  /\ IF out.exc = "none" THEN SetBoard(out.self) ELSE UNCHANGED boardVars
        /\ last' = Call("Board.from_json", "", 0, 0, FALSE, out, "None")
        /\ UNCHANGED <<bankVars, handVars, appVars>>

\* the bank is saved and restored
BankFromJson ==
    LET out == LetterBank_from_json(LetterBank_to_json(Hand))
    IN  /\ letter_bank' = out.self.letter_bank
        /\ letter_bank_total' = out.self.letter_bank_total
        /\ last' = Call("LetterBank.from_json", "", 0, 0, FALSE, out, "None")
        /\ UNCHANGED <<boardVars, handVars, appVars>>

\* the hand is saved and restored on its bank
HandFromJson ==
    LET out == PlayerHand_from_json(PlayerHand_to_json(Hand), Hand)
    IN  /\ SetHand(out.self)
        /\ last' = [Call("PlayerHand.from_json", "", 0, 0, FALSE, out, "None")
                       EXCEPT !.n = out.self.max_size]
        /\ UNCHANGED <<boardVars, appVars>>

NextSnapshot ==
    \/ PlaceWord \/ RemoveLetter
    \/ BoardFromJson \/ BankFromJson \/ HandFromJson

SpecSnapshot == InitApp /\ [][NextSnapshot]_vars

\* the words given to the validator: two of the dictionary table, one of
\* them in capitals, and two the table does not hold
ValidatorWords ==
    {<<"T", "H", "E">>, <<"g", "o">>, <<"q", "i">>, <<"Z", "A">>}

\* WordValidator.validate_word is called with a word; the definitions table,
\* the API key and the reply are as the environment has them.  last.words
\* holds cached_validations, last.letter the answer of is_valid_word.
ValidateWord ==
    \E word \in ValidatorWords, db_cached \in ApiAnswers, api_key \in BOOLEAN,
       response \in Responses :
        LET api == is_valid_word(word, last.words, db_cached, api_key, response)
            ret == validate_word(word, api.ret)
        IN  /\ last' = [Call("validate_word", api.ret, 0, 0, ret,
                              Return(scoring, ret), Show(ret))
                           EXCEPT !.word = word, !.words = api.cached_validations]
            /\ UNCHANGED <<boardVars, bankVars, handVars, appVars>>

NextValidator == ValidateWord

SpecValidator == InitApp /\ [][NextValidator]_vars

(***************************************************************************)
(* Board claims                                                             *)
(***************************************************************************)
\* every element of the board list is a row list of Cols cells
WellFormed(b) ==
    Len(b) = Rows /\ \A r \in 1..Rows : b[r].k = "list" /\ Len(b[r].v) = Cols

\* the letter a cell of a well-formed board holds
LetterAt(b, p) == b[p[1] + 1].v[p[2] + 1]

\* is_occupied answers, and answers true
Occupied(self, row, col) ==
    is_occupied(self, row, col).exc = "none" /\ is_occupied(self, row, col).ret

Centre == <<Rows \div 2, Cols \div 2>>

Fresh15 == NewBoard(15, 15, SPECIAL_TILES)

\* C4: is_valid_placement returns false for an out-of-bounds coordinate, an
\* occupied coordinate, a first move off the centre and a later move with no
\* occupied orthogonal neighbour, true otherwise; it returns a boolean for
\* every one-character letter including the blank marker and never changes
\* the board; on a fresh 15x15 board a first move at (0,0) is illegal and a
\* first move at (7,7) is legal.
C4_PlacementLegality ==
    [][ last'.op = "is_valid_placement" =>
            LET row == last'.row
                col == last'.col
                neighbours == {<<row - 1, col>>, <<row + 1, col>>,
                               <<row, col - 1>>, <<row, col + 1>>}
                illegal ==
                    \/ ~is_valid_position(Self, row, col)
                    \/ Occupied(Self, row, col)
                    \/ last'.flag /\ <<row, col>> # Centre
                    \/ ~last'.flag /\ ~\E q \in neighbours \cap Cells : Occupied(Self, q[1], q[2])
            IN  /\ last'.exc = "none"
                /\ last'.ret = IF illegal THEN "False" ELSE "True"
                /\ board' = board
                /\ special_tiles_occupied' = special_tiles_occupied
                /\ last'.flag /\ TilesOnBoard(board) = 0 /\ <<row, col>> = <<0, 0>> =>
                        is_valid_placement(Fresh15, "A", 0, 0, TRUE) = Return(Fresh15, FALSE)
                /\ last'.flag /\ TilesOnBoard(board) = 0 /\ <<row, col>> = Centre =>
                        is_valid_placement(Fresh15, "A", 7, 7, TRUE) = Return(Fresh15, TRUE)
      ]_vars

\* C7: a place_letter call with an out-of-bounds coordinate, an occupied
\* target cell or a letter that is neither one alphabetic character nor the
\* blank marker fails with the corresponding error (invalid position,
\* occupied position, invalid letter) and leaves the cells and the
\* special-tile flags as they were.
C7_RejectedPlacementChangesNothing ==
    [][ last'.op = "place_letter" =>
            LET letter == last'.letter
                row == last'.row
                col == last'.col
                bad_letter == Len(letter) # 1 \/ (~isalpha(letter) /\ letter # "0")
                bad_position == ~is_valid_position(Self, row, col)
                occupied == ~bad_position /\ Occupied(Self, row, col)
                errors == (IF bad_letter THEN {"InvalidLetter"} ELSE {})
                            \cup (IF bad_position THEN {"InvalidPosition"} ELSE {})
                            \cup (IF occupied THEN {"OccupiedPosition"} ELSE {})
            IN  errors # {} =>
                    /\ last'.exc = "ValueError"
                    /\ last'.msg \in errors
                    /\ board' = board
                    /\ special_tiles_occupied' = special_tiles_occupied
      ]_vars

\* C8: after a successful place_letter(letter, row, col), for a letter in
\* either case and for the blank marker '0', the cell is occupied
\* (is_occupied is true, get_occupied_positions lists it), it holds the
\* uppercase form of the letter, and every other cell is unchanged.
C8_PlacedCellIsOccupied ==
    [][ last'.op = "place_letter" /\ last'.exc = "none" =>
            LET row == last'.row
                col == last'.col
                after == BoardObj(board', special_tiles_occupied')
                listed == get_occupied_positions(after)
            IN  /\ Occupied(after, row, col)
                /\ listed.exc = "none" /\ <<row, col>> \in Range(listed.ret)
                /\ board'[row + 1].v[col + 1] = upper(last'.letter)
                /\ board' = [board EXCEPT ![row + 1].v[col + 1] = board'[row + 1].v[col + 1]]
      ]_vars

\* C9: clear_position is the inverse of place_letter: on an in-bounds cell it
\* raises nothing, empties that cell (a no-op on an empty cell), changes no
\* other cell and resets that cell's special-tile flag only, so place then
\* clear restores the board; an out-of-bounds coordinate is rejected with an
\* invalid-position error.
C9_ClearInvertsPlace ==
    [][ last'.op = "clear_position" /\ WellFormed(board) =>
            LET row == last'.row
                col == last'.col
            IN  IF ~is_valid_position(Self, row, col)
                THEN /\ last'.exc = "ValueError" /\ last'.msg = "InvalidPosition"
                     /\ board' = board
                     /\ special_tiles_occupied' = special_tiles_occupied
                ELSE /\ last'.exc = "none"
                     /\ board' = [board EXCEPT ![row + 1].v[col + 1] = ""]
                     /\ special_tiles_occupied' =
                            [p \in DOMAIN special_tiles |->
                                IF p = <<row, col>> THEN FALSE ELSE special_tiles_occupied[p]]
      ]_vars

\* C10: in every state reachable by place_letter, place_word, clear_position
\* and reset_board, a special tile's occupied flag is true exactly when its
\* cell holds a letter, so get_special_tiles returns exactly the special
\* tiles of the empty cells.
C10_FlagsTrackCoverage ==
    /\ \A p \in DOMAIN special_tiles :
            special_tiles_occupied[p] <=> Occupied(Self, p[1], p[2])
    /\ get_special_tiles(Self) =
            [p \in {q \in DOMAIN special_tiles : ~Occupied(Self, q[1], q[2])} |->
                special_tiles[p]]

\* the letter is_occupied finds on an occupied cell
LetterOn(self, p) == Cell2D(self, p[1], p[2]).val

\* the maximal runs of two or more occupied cells: <<row, first column, last
\* column>> along the rows, <<column, first row, last row>> along the columns
HorizontalRuns(self) ==
    {run \in (0..(self.rows - 1)) \X (0..(self.cols - 1)) \X (0..(self.cols - 1)) :
        /\ run[2] < run[3]
        /\ \A c \in run[2]..run[3] : Occupied(self, run[1], c)
        /\ run[2] > 0 => ~Occupied(self, run[1], run[2] - 1)
        /\ run[3] < self.cols - 1 => ~Occupied(self, run[1], run[3] + 1)}

VerticalRuns(self) ==
    {run \in (0..(self.cols - 1)) \X (0..(self.rows - 1)) \X (0..(self.rows - 1)) :
        /\ run[2] < run[3]
        /\ \A r \in run[2]..run[3] : Occupied(self, r, run[1])
        /\ run[2] > 0 => ~Occupied(self, run[2] - 1, run[1])
        /\ run[3] < self.rows - 1 => ~Occupied(self, run[3] + 1, run[1])}

\* a run as a word occurrence: its letters in order and its cells in order
Occurrence(self, cells) ==
    << [k \in DOMAIN cells |-> LetterOn(self, cells[k])], cells >>

WordOccurrences(self) ==
    {Occurrence(self, [k \in 1..(run[3] - run[2] + 1) |-> <<run[1], run[2] + k - 1>>]) :
        run \in HorizontalRuns(self)}
    \cup
    {Occurrence(self, [k \in 1..(run[3] - run[2] + 1) |-> <<run[2] + k - 1, run[1]>>]) :
        run \in VerticalRuns(self)}

Apple15 ==
    PlaceAll(Fresh15, <<"A", "P", "P", "L", "E">>, [k \in 1..5 |-> <<7, 6 + k>>])

Drama15 ==
    PlaceAll(Apple15, <<"D", "R", "A", "M">>, [k \in 1..4 |-> <<2 + k, 7>>])

\* C11: get_all_words returns one occurrence for each maximal run of two or
\* more consecutive occupied cells of a row and of a column, with the run's
\* letters and cells in order, nothing for a single cell and no run twice;
\* with APPLE on (7,7)-(7,11) of a 15x15 board it returns APPLE, and with
\* D, R, A, M added on (3,7)-(6,7) it returns APPLE and DRAMA.
C11_WordsAreMaximalRuns ==
    [][ last'.op = "get_all_words" =>
            /\ last'.exc = "none"
            /\ Range(last'.words) = WordOccurrences(Self)
            /\ Len(last'.words) = Cardinality(WordOccurrences(Self))
            /\ TilesOnBoard(board) = 0 /\ WellFormed(board) =>
                    /\ get_all_words(Apple15) =
                           Return(Apple15,
                                  << << <<"A", "P", "P", "L", "E">>,
                                        [k \in 1..5 |-> <<7, 6 + k>>] >> >>)
                    /\ get_all_words(Drama15) =
                           Return(Drama15,
                                  << << <<"A", "P", "P", "L", "E">>,
                                        [k \in 1..5 |-> <<7, 6 + k>>] >>,
                                     << <<"D", "R", "A", "M", "A">>,
                                        [k \in 1..5 |-> <<2 + k, 7>>] >> >>)
      ]_vars

RunThrough(self, p, drow, dcol) ==
    LET At(k) == <<p[1] + k * drow, p[2] + k * dcol>>
        Filled(k) == /\ is_valid_position(self, At(k)[1], At(k)[2])
                     /\ Occupied(self, At(k)[1], At(k)[2])
        span == self.rows + self.cols
        first == CHOOSE a \in (-span)..0 :
                     (\A k \in a..0 : Filled(k)) /\ ~Filled(a - 1)
        final == CHOOSE b \in 0..span :
                     (\A k \in 0..b : Filled(k)) /\ ~Filled(b + 1)
    IN  [i \in 1..(final - first + 1) |-> At(first + i - 1)]

\* C13: get_horizontal_word and get_vertical_word return the empty word for
\* a start cell that is empty or out of bounds, and otherwise the letters of
\* the maximal occupied run through the start cell (one letter when no
\* neighbour on the axis is occupied); at any cell of a word get_all_words
\* returns, on the word's axis, they return that word's text.
C13_ExtractedWordIsRun ==
    [][ last'.op \in {"get_horizontal_word", "get_vertical_word"} /\ WellFormed(board) =>
            LET p == <<last'.row, last'.col>>
                horizontal == last'.op = "get_horizontal_word"
                cells == RunThrough(Self, p, IF horizontal THEN 0 ELSE 1,
                                             IF horizontal THEN 1 ELSE 0)
                found == get_all_words(Self).ret
            IN  /\ last'.exc = "none"
                /\ last'.word =
                       IF ~is_valid_position(Self, p[1], p[2]) THEN <<>>
                       ELSE IF ~Occupied(Self, p[1], p[2]) THEN <<>>
                       ELSE Occurrence(Self, cells)[1]
                /\ \A i \in DOMAIN found :
                       (/\ p \in Range(found[i][2])
                        /\ horizontal <=> found[i][2][1][1] = found[i][2][2][1])
                       => last'.word = found[i][1]
      ]_vars

\* C14: get_letter is a pure query: for an in-bounds occupied cell it
\* returns the single letter stored there, for an in-bounds empty cell an
\* empty value without raising, for an out-of-bounds coordinate it raises
\* the invalid-position error; is_occupied is true exactly when get_letter
\* returns a letter.
C14_GetLetterReadsCell ==
    [][ last'.op = "get_letter" /\ WellFormed(board) =>
            LET row == last'.row
                col == last'.col
            IN  /\ board' = board
                /\ special_tiles_occupied' = special_tiles_occupied
                /\ IF ~is_valid_position(Self, row, col)
                   THEN last'.exc = "ValueError" /\ last'.msg = "InvalidPosition"
                   ELSE /\ last'.exc = "none"
                        /\ last'.ret = "str"
                        /\ last'.word = IF Occupied(Self, row, col)
                                        THEN <<LetterOn(Self, <<row, col>>)>>
                                        ELSE <<"">>
                        /\ Occupied(Self, row, col) <=> isalpha(last'.word[1])
      ]_vars

\* the cell, read as is_occupied reads it, holds a letter
HoldsLetter(self, p) ==
    /\ Cell2D(self, p[1], p[2]).exc = "none"
    /\ isalpha(Cell2D(self, p[1], p[2]).val)

\* C15: has_adjacent_letter(row, col) returns true exactly when one of the
\* four orthogonal neighbours that lie on the board is occupied; neighbours
\* off the board are not read, the diagonals and the cell itself do not
\* count, and an out-of-bounds (row, col) gives false.
C15_AdjacencyIsOrthogonal ==
    [][ last'.op = "has_adjacent_letter" =>
            LET row == last'.row
                col == last'.col
                neighbours == {<<row - 1, col>>, <<row + 1, col>>,
                               <<row, col - 1>>, <<row, col + 1>>} \cap Cells
            IN  /\ last'.exc = "none"
                /\ last'.ret = IF /\ is_valid_position(Self, row, col)
                                  /\ \E q \in neighbours : HoldsLetter(Self, q)
                               THEN "True" ELSE "False"
      ]_vars

\* C16: a cell goes from empty to occupied by a place only and the letter
\* of an occupied cell never changes: place_letter never overwrites an
\* occupied cell; place_word writes only the empty cells of its span, fails
\* when the word does not fit on the board or a cell of the span holds a
\* different letter (compared case-insensitively), and leaves the board
\* unchanged when it fails.  Stated for the place_letter and place_word
\* steps from a board whose cells are all readable.
C16_PlacesFillEmptyCellsOnly ==
    [][ last'.op \in {"place_letter", "place_word"} /\ WellFormed(board) =>
            LET word == last'.word
                n == Len(word)
                span == [i \in 1..n |-> WordCell(last'.row, last'.col, last'.dir, i - 1)]
                fits == \A i \in 1..n : span[i] \in Cells
                differs == \E i \in 1..n :
                               /\ LetterAt(board, span[i]) # ""
                               /\ LetterAt(board, span[i]) # upper(word[i])
            IN  /\ WellFormed(board')
                /\ \A p \in Cells :
                       LetterAt(board, p) # "" => LetterAt(board', p) = LetterAt(board, p)
                /\ last'.op = "place_word" =>
                       IF fits /\ ~differs
                       THEN /\ last'.exc = "none"
                            /\ \A i \in 1..n : LetterAt(board', span[i]) = upper(word[i])
                            /\ \A p \in Cells \ Range(span) :
                                   LetterAt(board', p) = LetterAt(board, p)
                       ELSE /\ last'.exc = "ValueError"
                            /\ board' = board
                            /\ special_tiles_occupied' = special_tiles_occupied
      ]_vars

\* C17: reset_board empties the board: afterwards is_occupied is false for
\* every in-bounds cell, get_occupied_positions is empty, the coverage is 0,
\* get_all_words returns no words and place_letter succeeds on any cell; the
\* board keeps its rows x cols shape and its special-tile layout.
C17_ResetEmptiesBoard ==
    [][ last'.op = "reset_board" =>
            LET after == BoardObj(board', special_tiles_occupied')
            IN  /\ last'.exc = "none"
                /\ \A p \in Cells : is_occupied(after, p[1], p[2]) = Return(after, FALSE)
                /\ get_occupied_positions(after) = Return(after, <<>>)
                /\ calculate_coverage(after) = Return(after, <<0, Rows * Cols>>)
                /\ get_all_words(after) = Return(after, <<>>)
                /\ \A p \in Cells : place_letter(after, "a", p[1], p[2]).exc = "none"
                /\ WellFormed(board')
                /\ after.special_tiles = Self.special_tiles
      ]_vars

(***************************************************************************)
(* Scoring claims                                                           *)
(***************************************************************************)
\* the face value of a letter of either case; the blank marker is worth 0
FaceValue(letter) == IF letter = "0" THEN 0 ELSE LETTER_VALUES[lower(letter)]

\* the kind of special tile on a cell of a layout, "none" when it has none
TileOn(layout, p) == IF p \in DOMAIN layout THEN layout[p] ELSE "none"

\* S: the letter values, doubled on DL and tripled on TL
LetterSum(layout, word, positions) ==
    LET RECURSIVE Sum(_)
        Sum(i) ==
            IF i = 0 THEN 0
            ELSE Sum(i - 1)
                 + FaceValue(word[i]) * (IF TileOn(layout, positions[i]) = "DL" THEN 2
                                         ELSE IF TileOn(layout, positions[i]) = "TL" THEN 3
                                         ELSE 1)
    IN  Sum(Len(word))

\* W: 2 for each DW cell and 3 for each TW cell of the word
WordFactor(layout, positions) ==
    LET RECURSIVE Product(_)
        Product(i) ==
            IF i = 0 THEN 1
            ELSE Product(i - 1) * (IF TileOn(layout, positions[i]) = "DW" THEN 2
                                   ELSE IF TileOn(layout, positions[i]) = "TW" THEN 3
                                   ELSE 1)
    IN  Product(Len(positions))

\* L as a fraction <<numerator, denominator>>
LengthFactor(n) ==
    IF n <= 4 THEN <<1, 1>>
    ELSE IF n = 5 THEN <<3, 2>>
    ELSE IF n = 6 THEN <<2, 1>>
    ELSE <<3, 1>>

\* C18: calculate_word_score(word, positions) is floor(L * W * S), with S the
\* letter values doubled on DL and tripled on TL cells, W the product of 2
\* per DW cell and 3 per TW cell, and L 1, 1.5, 2 or 3 for at most 4, 5, 6
\* and 7 or more letters; the blank scores 0; the result depends on the
\* word, the positions and the special-tile map only.
C18_WordScoreFormula ==
    [][ last'.op = "calculate_word_score" =>
            LET word == last'.word
                positions == Span(word, last'.row, last'.col, last'.dir)
                S == LetterSum(SPECIAL_TILES, word, positions)
                W == WordFactor(SPECIAL_TILES, positions)
                L == LengthFactor(Len(word))
                played == [scoring EXCEPT !.total_score = 7, !.turns_played = 1,
                                          !.tiles_placed = 2, !.highest_word_score = 7]
            IN  /\ last'.result = (L[1] * W * S) \div L[2]
                /\ \A i \in DOMAIN word : word[i] = "0" => get_letter_score(scoring, word[i]) = 0
                /\ calculate_word_score(played, word, positions) = last'.result
                /\ scoring' = scoring
      ]_vars

\* a five-letter word through a letter multiplier and a word multiplier
\* whose score the floor rounds down
C18_FiveLettersRoundedDown ==
    LET positions == Span(last.word, last.row, last.col, last.dir)
        S == LetterSum(SPECIAL_TILES, last.word, positions)
        W == WordFactor(SPECIAL_TILES, positions)
    IN  /\ last.op = "calculate_word_score"
        /\ Len(last.word) = 5
        /\ W > 1
        /\ \E i \in 1..5 : TileOn(SPECIAL_TILES, positions[i]) \in {"DL", "TL"}
        /\ (3 * W * S) % 2 = 1
        /\ last.result = (3 * W * S - 1) \div 2

\* the layout without the special tiles of the given cells
Unconsumed(layout, consumed) ==
    [p \in DOMAIN layout \ consumed |-> layout[p]]

\* C19: a special tile's multiplier is applied only while it has not been
\* consumed: in the turn after a turn whose scored words used the
\* multipliers of their cells, a word through one of those cells scores that
\* cell's letter at face value and gets no word multiplier from it, so the
\* turn scores what it would on a layout without those tiles.
C19_ConsumedTilesNotReapplied ==
    [][ (/\ last'.op = "calculate_turn_score"
         /\ last.op = "calculate_turn_score"
         /\ scoring.turns_played = 1
         /\ Range(last'.words) \cap Range(last.words) = {}) =>
            LET consumed == CellsOf(last.words) \cap DOMAIN scoring.special_tiles
                remaining == [scoring EXCEPT
                                 !.special_tiles = Unconsumed(@, consumed)]
            IN  last'.result =
                    calculate_turn_score(remaining, last'.words, last'.positions).ret
      ]_vars

\* C20: calculate_turn_score adds to each word 2 points for every cell of
\* the word that was occupied before this turn and nothing for the cells
\* placed in this turn, when board_positions holds the cells occupied before
\* the turn; DRAMA through the A of APPLE on (7,7) gets at least 2.
C20_ConnectionBonusPerSharedCell ==
    [][ (/\ last'.op = "calculate_turn_score"
         /\ last.op = "calculate_turn_score"
         /\ scoring.turns_played = 1
         /\ last.positions = <<>>
         /\ Range(last'.words) \cap Range(last.words) = {}
         /\ Range(last'.positions) = CellsOf(last.words)) =>
            LET words == last'.words
                before == Range(last'.positions)
                RECURSIVE Total(_)
                Total(i) ==
                    IF i = 0 THEN 0
                    ELSE Total(i - 1)
                         + calculate_word_score(scoring, words[i][1], words[i][2])
                         + 2 * Cardinality(Range(words[i][2]) \cap before)
                         + (IF is_bingo(words[i][1]) THEN bingo_bonus ELSE 0)
            IN  /\ last'.result = Total(Len(words))
                /\ (words = <<DRAMA>> /\ last.words = <<APPLE>>) =>
                       last'.result >= calculate_word_score(scoring, DRAMA[1], DRAMA[2]) + 2
      ]_vars

\* the sum of f over the indices of a list
SumOver(seq, f(_)) ==
    LET RECURSIVE Upto(_)
        Upto(n) == IF n = 0 THEN 0 ELSE Upto(n - 1) + f(n)
    IN  Upto(Len(seq))

Lettered(b) == {p \in Cells : LetterAt(b, p) # ""}

\* the coverage bonus of the step table for k occupied cells out of total
StepBonus(k, total) ==
    LET steps == << <<30, 50>>, <<40, 100>>, <<50, 200>>, <<60, 350>>, <<70, 500>>,
                    <<80, 750>>, <<90, 1000>>, <<100, 2000>> >>
        reached == {i \in DOMAIN steps : k * 100 >= steps[i][1] * total}
    IN  IF reached = {} THEN 0
        ELSE steps[CHOOSE i \in reached : \A j \in reached : j <= i][2]

CountLengths(words, lengths) ==
    Cardinality({i \in DOMAIN words : Len(words[i][1]) \in lengths})

\* C23: the complexity bonus computed from the scorer's word-length
\* histogram is 10 per five-letter word, 20 per six-letter word and 50 per
\* word of seven or more letters, words of four letters or fewer counting
\* nothing; the histogram counts every word scored exactly once.
C23_ComplexityBonus ==
    /\ [](last.op = "calculate_complexity_bonus" =>
            last.result
              = 10 * DictGet(scoring.words_by_length, 5, 0)
                + 20 * DictGet(scoring.words_by_length, 6, 0)
                + 50 * SumValues([l \in {n \in DOMAIN scoring.words_by_length : n >= 7}
                                    |-> scoring.words_by_length[l]]))
    /\ [](scoring.turns_played = 0 => scoring.words_by_length = EmptyDict)
    /\ [][last'.op = "calculate_turn_score" =>
            \A l \in 1..MaxWordLen :
                DictGet(scoring'.words_by_length, l, 0)
                  = DictGet(scoring.words_by_length, l, 0) + CountLengths(last'.words, {l})]_vars

\* the bonus was computed after an eight-letter and a five-letter word were
\* scored: 50 and 10
C23_LongWordsPaid ==
    /\ last.op = "calculate_complexity_bonus"
    /\ DOMAIN scoring.words_by_length = {5, 8}
    /\ last.result = 60

\* C24: validate_word_positions(word, positions) returns true exactly when
\* all positions share one row or all share one column, and false for any
\* diagonal or mixed list of positions.
C24_StraightLineOnly ==
    last.op = "validate_word_positions" =>
        (last.flag <=>
            \/ \E r \in 0..(Rows - 1) : \A i \in DOMAIN last.positions :
                    last.positions[i][1] = r
            \/ \E c \in 0..(Cols - 1) : \A i \in DOMAIN last.positions :
                    last.positions[i][2] = c)

\* a diagonal of three cells was refused
C24_DiagonalRefused ==
    /\ last.op = "validate_word_positions"
    /\ last.positions = << <<0, 0>>, <<1, 1>>, <<2, 2>> >>
    /\ ~last.flag

\* the counters of a scorer that only grow between new games
Counters(s) ==
    <<s.total_score, s.total_words_formed, Len(s.longest_word), s.highest_word_score,
      s.turns_played, s.tiles_placed, SumValues(s.words_by_length)>>

\* C32: starting a new game resets the scorer: after new game (or reset) the
\* running total is 0 and the cumulative statistics (words played, longest
\* word, highest-scoring word and its score, turns played, tiles placed,
\* word-length histogram) have their initial values; between new games none
\* of these counters decreases.
C32_NewGameResetsScorer ==
    [][/\ last'.op \in {"new_game", "reset_score"} =>
           /\ score' = 0 \/ last'.op = "reset_score"
           /\ scoring'.total_score = 0
           /\ scoring'.total_words_formed = 0
           /\ scoring'.longest_word = <<>>
           /\ scoring'.highest_scoring_word = <<>>
           /\ scoring'.highest_word_score = 0
           /\ scoring'.turns_played = 0
           /\ scoring'.tiles_placed = 0
           /\ scoring'.words_by_length = EmptyDict
       /\ last'.op \notin {"new_game", "reset_score"} =>
           \A i \in 1..7 : Counters(scoring')[i] >= Counters(scoring)[i]]_vars

(***************************************************************************)
(* Letter bank claims                                                       *)
(***************************************************************************)
\* the 26 letters and the blank marker
Symbols == LowerSet \cup {"0"}

\* C3 (as amended): a bank as constructed, and a bank after
\* init_letter_bank, has the 27 symbols as keys, a letter_bank_total equal
\* to the sum of its counts, and that sum is 104.
C3_NewBankHolds104 ==
    last.op \in {"init", "init_letter_bank"} =>
        /\ DOMAIN letter_bank = Symbols
        /\ Cardinality(DOMAIN letter_bank) = 27
        /\ letter_bank_total = SumValues(letter_bank)
        /\ letter_bank_total = 104

\* a bank that was drawn from or used has been initialised again
C3_Reinitialised ==
    /\ last.op = "init_letter_bank"
    /\ letter_bank = LETTER_FREQUENCIES
    /\ letter_bank_total = FullBank

\* C3 (as stated): a bank as constructed, and a bank after init_letter_bank,
\* has a letter_bank_total equal to the sum of the counts of the 27 symbols,
\* and that sum is 98.
C3_NewBankHolds98 ==
    last.op \in {"init", "init_letter_bank"} =>
        /\ DOMAIN letter_bank = Symbols
        /\ Cardinality(DOMAIN letter_bank) = 27
        /\ letter_bank_total = SumValues(letter_bank)
        /\ letter_bank_total = 98

\* C25: in every state reached by draw_tiles, refill_hand, return_tiles,
\* use_letters and init_letter_bank, letter_bank_total equals the sum of the
\* per-letter counts, and no count, nor the total, is negative.
C25_BankTotalIsSum ==
    /\ letter_bank_total = SumValues(letter_bank)
    /\ letter_bank_total >= 0
    /\ \A l \in DOMAIN letter_bank : letter_bank[l] >= 0

\* a nearly empty bank was asked for more tiles than it held and is empty
C25_BankDrawnEmpty ==
    /\ last.op \in {"draw_tiles", "refill_hand"}
    /\ last.n = 2
    /\ letter_bank_total = 0
    /\ "q" \in DOMAIN letter_bank

\* how many times a letter is in a list
Times(seq, l) == Cardinality({i \in DOMAIN seq : seq[i] = l})

\* C26: draw_tiles(n) raises nothing for any n >= 0 in any bank state; it
\* returns exactly min(n, remaining) tiles, every letter drawn had a positive
\* count when it was drawn, and the bank's count of each letter goes down by
\* the number of tiles of that letter returned.
C26_DrawTilesTakesMin ==
    [][last'.op = "draw_tiles" =>
        /\ last'.exc = "none"
        /\ Len(last'.word) = IF last'.n <= letter_bank_total THEN last'.n
                              ELSE letter_bank_total
        /\ letter_bank_total' = letter_bank_total - Len(last'.word)
        /\ DOMAIN letter_bank' = DOMAIN letter_bank
        /\ \A l \in DOMAIN letter_bank :
               /\ Times(last'.word, l) <= letter_bank[l]
               /\ letter_bank'[l] = letter_bank[l] - Times(last'.word, l)
        /\ \A i \in DOMAIN last'.word : last'.word[i] \in DOMAIN letter_bank]_vars

\* two tiles were asked of a bank that held one, and one was returned
C26_FewerThanAsked ==
    /\ last.op = "draw_tiles"
    /\ last.n = 2
    /\ Len(last.word) = 1
    /\ letter_bank_total = 0

\* C27: return_tiles(letter, n) succeeds for each of the 27 symbols of the
\* frequency table in every bank state reached, also when that letter's count
\* has dropped to 0 through draw_tiles or use_letters, and adds n to the
\* letter's count and to the total; for any other symbol it fails with the
\* unknown-letter error and leaves the bank unchanged.
C27_ReturnTilesAccepted ==
    [][last'.op = "return_tiles" =>
        IF last'.letter \in Symbols
        THEN /\ last'.exc = "none"
             /\ DictGet(letter_bank', last'.letter, 0)
                  = DictGet(letter_bank, last'.letter, 0) + last'.n
             /\ letter_bank_total' = letter_bank_total + last'.n
        ELSE /\ last'.exc = "ValueError"
             /\ letter_bank' = letter_bank
             /\ letter_bank_total' = letter_bank_total]_vars

(***************************************************************************)
(* Tile and turn claims                                                     *)
(***************************************************************************)
\* C2: the tiles in the bank, in the hand and on the board are together as
\* many as a full bank holds, whatever draws, returns, exchanges and
\* placements have happened.
C2_TilesConserved ==
    SumValues(letter_bank) + SumValues(hand) + TilesOnBoard(board) = FullBank

\* the words on the board before a step that have a cell placed this turn
Candidates ==
    LET found == get_all_words(Self)
    IN  IF found.exc # "none" THEN <<>>
        ELSE SelectSeq(found.ret, LAMBDA w : Range(w[2]) \cap placed_this_turn # {})

\* C28: the hand never holds more than max_size letters, after any sequence
\* of fill_initial_hand, refill with or without a count, LetterBank.refill_hand,
\* add_letter, remove_letter, return_to_bank, exchange_letters and the
\* refills at the end of a turn: len(letter_order) <= max_size.
C28_HandWithinMaxSize == Len(letter_order) <= MaxSize

\* C29: add_letter on a hand at max_size is refused and otherwise appends the
\* letter at the end; remove_letter of a letter the hand does not hold is
\* refused and otherwise removes exactly one occurrence; a refused operation
\* leaves the hand unchanged.
C29_AddAndRemoveLetter ==
    [][/\ last'.op = "add_letter" =>
           /\ last'.exc = "none"
           /\ IF Len(letter_order) >= MaxSize
              THEN ~last'.flag /\ UNCHANGED handVars
              ELSE /\ last'.flag
                   /\ letter_order' = Append(letter_order, last'.letter)
                   /\ hand_total' = hand_total + 1
                   /\ hand' = DictSet(hand, last'.letter,
                                      DictGet(hand, last'.letter, 0) + 1)
       /\ last'.op = "remove_letter" =>
           /\ last'.exc = "none"
           /\ IF last'.letter \notin Range(letter_order)
              THEN ~last'.flag /\ UNCHANGED handVars
              ELSE /\ last'.flag
                   /\ Len(letter_order') = Len(letter_order) - 1
                   /\ \A l \in Range(letter_order) :
                          Times(letter_order', l)
                            = Times(letter_order, l) - (IF l = last'.letter THEN 1 ELSE 0)
                   /\ \A l \in Range(letter_order) :
                          DictGet(hand', l, 0) = Times(letter_order', l)
                   /\ hand_total' = hand_total - 1
       /\ UNCHANGED bankVars]_vars

\* a letter was added at the end of a hand that had room after a removal
C29_AddedAtEnd ==
    /\ last.op = "add_letter"
    /\ last.flag
    /\ Len(letter_order) = MaxSize
    /\ letter_order[MaxSize] = last.letter
    /\ last.letter = "A"

\* the hand's tiles can cover the word, each blank standing for one letter
\* the hand lacks
Coverable(counts, word) ==
    LET letters == Range(word) \ {"0"}
        Missing(l) == IF Times(word, l) > DictGet(counts, l, 0)
                      THEN Times(word, l) - DictGet(counts, l, 0) ELSE 0
    IN  SumValues([l \in letters |-> Missing(l)]) + Times(word, "0")
            <= DictGet(counts, "0", 0)

\* C30: can_form_word(word) is true exactly when the hand's multiset of
\* letters covers the word's, each blank tile standing for any one letter,
\* and the call does not change the hand.
C30_CanFormWordWithBlanks ==
    [][last'.op = "can_form_word" =>
        /\ last'.flag <=> Coverable(hand, last'.word)
        /\ UNCHANGED handVars]_vars

\* C31: shuffle_letters never changes which letters the hand holds: after it
\* letter_order is a permutation of the sequence before and the per-letter
\* counts and hand_total are unchanged; on an empty hand it returns false and
\* changes nothing, otherwise it returns true.
C31_ShuffleKeepsLetters ==
    [][last'.op = "shuffle_letters" =>
        /\ last'.exc = "none"
        /\ Len(letter_order') = Len(letter_order)
        /\ \A l \in Range(letter_order) \cup Range(letter_order') :
               Times(letter_order', l) = Times(letter_order, l)
        /\ hand' = hand
        /\ hand_total' = hand_total
        /\ UNCHANGED bankVars
        /\ last'.flag <=> letter_order # <<>>
        /\ letter_order = <<>> => letter_order' = <<>>]_vars

\* a hand of two different letters was shuffled into the other order
C31_OrderChanged ==
    /\ last.op = "shuffle_letters"
    /\ last.flag
    /\ Len(letter_order) = MaxSize
    /\ hand_total = MaxSize
    /\ letter_order[1] = "A"
    /\ letter_order[MaxSize] # "A"

\* C1: when a turn is submitted and a word with a cell placed this turn
\* fails dictionary validation, whatever the API answered, the cells placed
\* this turn are cleared, their letters are back in the hand, every other
\* cell and the score are as before, and the result names an offending word.
C1_InvalidWordRollsBack ==
    [][\A api_result \in ApiAnswers :
        LET offending == {i \in DOMAIN Candidates :
                             ~validate_word(Candidates[i][1], api_result)}
        IN  (last'.op = "submit_word" /\ offending # {}) =>
                /\ \A p \in placed_this_turn : LetterAt(board', p) = ""
                /\ \A p \in Cells \ placed_this_turn :
                       LetterAt(board', p) = LetterAt(board, p)
                /\ hand_total' = hand_total + Cardinality(placed_this_turn)
                /\ score' = score
                /\ last'.word \in {Candidates[i][1] : i \in offending}]_vars

\* C5: a submitted turn that updates the score adds to it what the words
\* with a cell placed this turn score, and nothing for a word made of
\* earlier cells only.
C5_OnlyNewWordsScored ==
    [][(last'.op = "submit_word" /\ last'.flag) =>
           score' - score = calculate_turn_score(scoring, Candidates, <<>>).ret]_vars

\* C6: when a turn is submitted, it formed words and every word with a cell
\* placed this turn is valid, the turn score is added to the score and the
\* hand receives as many tiles as were placed this turn, or all the bank has
\* if it has fewer.
C6_CommitRefillsConsumed ==
    [][\A api_result \in ApiAnswers :
        LET consumed == Cardinality(placed_this_turn)
            valid == \A i \in DOMAIN Candidates :
                         validate_word(Candidates[i][1], api_result)
        IN  (last'.op = "submit_word" /\ consumed > 0 /\ Candidates # <<>> /\ valid) =>
                /\ score' = score + last'.result
                /\ hand_total' = hand_total + (IF consumed <= letter_bank_total
                                               THEN consumed ELSE letter_bank_total)]_vars

C34_SnapshotRoundTrip ==
    [][last'.op \in {"Board.from_json", "LetterBank.from_json", "PlayerHand.from_json"} =>
           /\ last'.exc = "none"
           /\ board' = board
           /\ special_tiles_occupied' = special_tiles_occupied
           /\ letter_bank' = letter_bank
           /\ letter_bank_total' = letter_bank_total
           /\ hand' = hand
           /\ hand_total' = hand_total
           /\ letter_order' = letter_order
           /\ last'.op = "PlayerHand.from_json" => last'.n = MaxSize
           /\ last'.op = "Board.from_json" =>
                  get_all_words(Self).ret = get_all_words(Self)'.ret]_vars

(***************************************************************************)
(* Game claims                                                              *)
(***************************************************************************)
\* C35: Game.remove_letter called on a cell placed in the current turn
\* clears the cell, drops it from the tracked letters and positions and
\* returns the letter; called on any other cell, committed or empty, it
\* returns None and leaves board, hand and turn tracking unchanged; the two
\* tracking lists always have the same length.
C35_RemoveOnlyCurrentTurn ==
    /\ [](Len(game.current_turn_letters) = Len(game.current_turn_positions))
    /\ [][last'.op = "Game.remove_letter" =>
             LET position == <<last'.row, last'.col>>
             IN  IF position \in Range(game.current_turn_positions)
                 THEN /\ last'.exc = "none"
                      /\ position \notin Range(game'.current_turn_positions)
                      /\ Len(game'.current_turn_letters) = Len(game.current_turn_letters) - 1
                      /\ LetterAt(board', position) = ""
                 ELSE position \in Cells =>
                          /\ last'.exc = "none"
                          /\ last'.ret = "None"
                          /\ UNCHANGED <<boardVars, bankVars, handVars, game>>]_vars

\* C36: after calculate_turn_score, word_scores holds the breakdown of that
\* turn only: one entry for each word occurrence the turn scored and no
\* entry of an earlier turn.
C36_WordScoresOfLastTurn ==
    [][last'.op = "calculate_turn_score" =>
           /\ DOMAIN scoring'.word_scores = {last'.words[i][1] : i \in DOMAIN last'.words}
           /\ Cardinality(DOMAIN scoring'.word_scores) = Len(last'.words)]_vars

RECURSIVE Reach(_, _)
Reach(S, seen) ==
    LET next == {p \in S \ seen :
                    \E q \in seen : <<p[1] - q[1], p[2] - q[2]>> \in
                                        {<<1, 0>>, <<-1, 0>>, <<0, 1>>, <<0, -1>>}}
    IN  IF next = {} THEN seen ELSE Reach(S, seen \cup next)

\* S is one orthogonally connected group (or empty)
Connected(S) == S = {} \/ Reach(S, {CHOOSE p \in S : TRUE}) = S

\* C38: once a turn with tiles has been committed, the centre cell is
\* occupied, and at the end of every such turn the occupied cells form one
\* orthogonally connected group.
C38_CentreAndConnected ==
    [][(last'.op = "submit_word" /\ last'.flag /\ placed_this_turn # {}) =>
           /\ <<Rows \div 2, Cols \div 2>> \in Lettered(board')
           /\ Connected(Lettered(board'))]_vars

(***************************************************************************)
(* Hand claims                                                              *)
(***************************************************************************)
\* C39: in every state reached by fill_initial_hand, refill, refill_hand,
\* add_letter, remove_letter, return_to_bank, return_all_to_bank,
\* exchange_letters and shuffle_letters, hand_total is the length of
\* letter_order and the sum of the counts of hand, each count is the number
\* of occurrences of its letter in letter_order, and no count is zero or
\* negative.
C39_HandViewsAgree ==
    /\ hand_total = Len(letter_order)
    /\ hand_total = SumValues(hand)
    /\ Range(letter_order) = DOMAIN hand
    /\ \A l \in DOMAIN hand : hand[l] = Times(letter_order, l) /\ hand[l] > 0

\* a letter the bank does not take was put back at the end of the hand,
\* next to a tile drawn from the bank
C39_PutBack ==
    /\ last.op = "return_to_bank"
    /\ last.letter = "A"
    /\ last.ret = "False"
    /\ Len(letter_order) = MaxSize
    /\ letter_order[Len(letter_order)] = "A"

\* C40: exchange_letters is all or nothing: when it returns an empty list
\* the hand and the bank are as before the call; when it returns letters,
\* the hand size and the bank total are as before and the list returned is
\* the end of letter_order, the letters newly drawn.
C40_ExchangeAllOrNothing ==
    [][(last'.op = "exchange_letters" /\ last'.exc = "none") =>
           IF last'.word = <<>>
           THEN UNCHANGED <<bankVars, handVars>>
           ELSE /\ hand_total' = hand_total
                /\ letter_bank_total' = letter_bank_total
                /\ Len(last'.word) = Len(last'.words)
                /\ last'.word = SubSeq(letter_order', Len(letter_order') - Len(last'.word) + 1,
                                       Len(letter_order'))]_vars

====
